---------------------------- MODULE Spec2Model ----------------------------
(***************************************************************************)
(* Model of the RAMM deployment pipeline of ramm-sui-deploy.               *)
(*                                                                         *)
(* The pipeline (ramm_deployment) is one logical thread that validates a   *)
(* deployment config, builds a ledger client, resolves the package id      *)
(* (from the config or by publishing), creates the RAMM, tells the two     *)
(* capability objects apart with one type query, resolves the oracle       *)
(* (aggregator) objects with one batched read, fetches a gas coin and the  *)
(* gas price, and submits one programmable transaction (PTB) that adds the *)
(* assets and initializes the RAMM.                                        *)
(*                                                                         *)
(* Every awaited network call is two actions: the call is issued, then the *)
(* node responds.  The node and the ledger are the environment: their      *)
(* answers are drawn from bounded sets.  A Rust panic (expect, unwrap,     *)
(* assert!, panic!) ends the run with outcome "panic"; a returned Err ends *)
(* it with outcome "err".                                                  *)
(***************************************************************************)
EXTENDS Naturals, Sequences, FiniteSets

(***************************************************************************)
(* Bounds of the model.                                                    *)
(***************************************************************************)
\* largest number of assets in a config
MaxAssets == 2
\* largest number of objects a publish transaction reports as created
MaxPublished == 2
\* largest number of objects the creation transaction reports as created
MaxCreated == 4

(***************************************************************************)
(* Program constants.                                                      *)
(***************************************************************************)
ASSET_MIN_DECIMAL_PLACES == 4
PACKAGE_PUBLICATION_GAS_BUDGET == 500000000
CREATE_RAMM_GAS_BUDGET == 100000000
RAMM_PTB_GAS_BUDGET == 100000000
RAMM_MODULE_NAME == "ramm"

VARIABLES
    cfg,                    \* dplymt_cfg: the parsed deployment config
    pc,                     \* position of the pipeline
    outcome,                \* "running", "ok" (Ok returned), "err" (Err returned), "panic"
    err,                    \* RAMMDeploymentError variant, or the panic's site
    log,                    \* network calls issued so far, in order, with their status
    chain,                  \* the ledger: the set of objects that exist on-chain
    client_address,         \* the active address
    ramm_package_id,        \* resolved package id
    ramm_obj_arg,           \* ObjectArg of the RAMM
    cap_obj_args,           \* ObjectArgs of the caller-owned created objects, response order
    cap_obj_ty,             \* type name the type query returned for cap_obj_args[0]
    admin_cap_obj_arg,      \* ObjectArg tagged admin capability
    new_asset_cap_obj_arg,  \* ObjectArg tagged new-asset capability
    aggr_objs,              \* answer of the batched read of the aggregators
    aggr_obj_args,          \* ObjectArgs of the aggregators
    coin,                   \* the gas coin fetched for the PTB
    gas_price,              \* the reference gas price fetched for the PTB
    ptb_tx,                 \* TransactionData of the PTB
    txs,                    \* transactions signed and submitted, in order
    ptb_status,             \* execution status the ledger reported for the PTB
    input                   \* user_assent_interaction: the line buffer

vars == <<cfg, pc, outcome, err, log, chain, client_address, ramm_package_id,
          ramm_obj_arg, cap_obj_args, cap_obj_ty, admin_cap_obj_arg,
          new_asset_cap_obj_arg, aggr_objs, aggr_obj_args, coin, gas_price,
          ptb_tx, txs, ptb_status, input>>

(***************************************************************************)
(* Data.  Object ids and addresses are opaque: an id is a pair of a label  *)
(* and a rank.  Objects created by a transaction are named by their kind   *)
(* and their rank among the created objects of that kind.                  *)
(***************************************************************************)
NoId == <<"none", 0>>
ActiveAddress == "client"
OtherAddress == "other"

\* sui_types::object::Owner
AddressOwner(a) == [kind |-> "AddressOwner", addr |-> a, initial_shared_version |-> 0]
Shared(v) == [kind |-> "Shared", addr |-> "", initial_shared_version |-> v]
Immutable == [kind |-> "Immutable", addr |-> "", initial_shared_version |-> 0]
\* SuiObjectData.owner = None: the node sent the object without its owner
NoOwner == [kind |-> "None", addr |-> "", initial_shared_version |-> 0]

\* sui_json_rpc_types::OwnedObjectRef: an element of effects.created()
OwnedObjectRef(id, ver, owner) ==
    [owner |-> owner, reference |-> [object_id |-> id, version |-> ver]]

\* sui_types::transaction::ObjectArg
NoObjArg == [kind |-> "None", id |-> NoId, version |-> 0, mutable |-> FALSE]
SharedObject(id, isv, mut) ==
    [kind |-> "SharedObject", id |-> id, version |-> isv, mutable |-> mut]
ImmOrOwnedObject(id, ver) ==
    [kind |-> "ImmOrOwnedObject", id |-> id, version |-> ver, mutable |-> FALSE]

\* An object of the ledger, with the transaction that created it.  assets
\* and active are the RAMM's state and stay empty and FALSE for every other
\* type.
ChainObject(id, ty, owner, ver, by) ==
    [id |-> id, ty |-> ty, owner |-> owner, version |-> ver, creator |-> by,
     previous_transaction |-> by, assets |-> <<>>, active |-> FALSE]

\* sui_types::base_types::ObjectRef (the digest follows the version)
ObjectRef(id, ver) == [object_id |-> id, version |-> ver]
NoCoin == ObjectRef(NoId, 0)

\* ids of the SUI coins of the active address, in the order the node lists
\* them
GasCoinIds == << <<"gascoin", 1>>, <<"gascoin", 2>> >>

\* A SUI coin of the active address, as it is before the run.
GasCoin(id) ==
    ChainObject(id, "GasCoin", AddressOwner(ActiveAddress), 1, "genesis")

\* what the active address holds before the run
AccountCoins == { GasCoin(GasCoinIds[i]) : i \in 1..Len(GasCoinIds) }

(***************************************************************************)
(* Deployment config (types.rs).                                           *)
(***************************************************************************)
FromTomlConfig(addr) == [tag |-> "FromTomlConfig", addr |-> addr]
FromPkgPublication == [tag |-> "FromPkgPublication", addr |-> NoId]

\* The i-th asset of the model's asset universe, with d decimal places.
AssetConfig(i, d) ==
    [asset_type |-> <<"coin", i>>,
     aggregator_address |-> <<"aggr", i>>,
     minimum_trade_amount |-> IF i % 2 = 1 THEN 1000 ELSE 1,
     decimal_places |-> d]

\* decimal places of the i-th asset in a well-formed config
GoodDecimals(i) == IF i % 2 = 1 THEN 6 ELSE 8

\* Asset lists: the first n assets, all well-formed or one of them with too
\* few decimal places.
AssetLists ==
    { [i \in 1..n |-> AssetConfig(i, GoodDecimals(i))] : n \in 0..MaxAssets }
    \cup
    { [i \in 1..n |-> AssetConfig(i, IF i = k THEN ASSET_MIN_DECIMAL_PLACES - 1
                                              ELSE GoodDecimals(i))] :
        n \in 1..MaxAssets, k \in 1..MaxAssets }

Configs ==
    [target_env : {"testnet", "devnet"},
     ramm_pkg_addr_or_path : {FromTomlConfig(<<"cfgpkg", 1>>), FromPkgPublication},
     asset_count : 0..MaxAssets,
     fee_collection_address : {"fee"},
     assets : AssetLists]

\* RAMMDeploymentConfig::validate_ramm_cfg; `assets.len() as u8` truncates.
validate_ramm_cfg(c) ==
    /\ c.asset_count = Len(c.assets) % 256
    /\ c.asset_count > 0
    /\ c.target_env \in {"active", "testnet", "mainnet"}
    /\ \A i \in 1..Len(c.assets) :
          c.assets[i].decimal_places >= ASSET_MIN_DECIMAL_PLACES

(***************************************************************************)
(* The ledger (environment).  A transaction reports the objects it created *)
(* as a list of OwnedObjectRefs; the ledger draws the list from the kinds  *)
(* below.  The on-chain type of an object is not part of the report.       *)
(***************************************************************************)
Seqs(S, n) == UNION { [1..k -> S] : k \in 0..n }

\* rank of element i among the elements of its kind
Rank(ks, i) == Cardinality({ j \in 1..i : ks[j] = ks[i] })

\* what a publish transaction may create
PublishKinds == {"pkg", "upcap"}
\* what the creation transaction may create
CreateKinds == {"ramm", "admin", "newasset", "coin", "foreign"}

\* The object of kind k and rank r created for `sender`.
KindObject(k, r, sender) ==
    CASE k = "pkg"      -> ChainObject(<<k, r>>, "Package", Immutable, 1, "publish")
      [] k = "upcap"    -> ChainObject(<<k, r>>, "UpgradeCap", AddressOwner(sender), 2, "publish")
      [] k = "ramm"     -> ChainObject(<<k, r>>, "RAMM", Shared(3), 3, "create")
      [] k = "admin"    -> ChainObject(<<k, r>>, "RAMMAdminCap", AddressOwner(sender), 3, "create")
      [] k = "newasset" -> ChainObject(<<k, r>>, "RAMMNewAssetCap", AddressOwner(sender), 3, "create")
      [] k = "coin"     -> ChainObject(<<k, r>>, "Coin", AddressOwner(sender), 3, "create")
      [] k = "foreign"  -> ChainObject(<<k, r>>, "RAMMAdminCap", AddressOwner(OtherAddress), 3, "create")

\* the objects a transaction creating kinds ks adds to the ledger
CreatedObjects(ks, sender) ==
    { KindObject(ks[i], Rank(ks, i), sender) : i \in 1..Len(ks) }

\* effects.created() of that transaction, in response order
CreatedRefs(ks, sender) ==
    [i \in 1..Len(ks) |->
        LET o == KindObject(ks[i], Rank(ks, i), sender)
        IN  OwnedObjectRef(o.id, o.version, o.owner)]

\* `oor.owner == client_address`: PartialEq<SuiAddress> for Owner holds for
\* an AddressOwner of that address only.
OwnerIs(owner, addr) == owner.kind = "AddressOwner" /\ owner.addr = addr

\* the ledger's object with the given id (ids are unique on the ledger)
HasObject(ch, id) == \E o \in ch : o.id = id
ObjectAt(ch, id) == CHOOSE o \in ch : o.id = id

\* The SUI coins of an address, as the node lists them: object references at
\* the coins' current versions.
CoinsOf(ch, addr) ==
    LET ids == SelectSeq(GasCoinIds,
                         LAMBDA id : /\ HasObject(ch, id)
                                     /\ OwnerIs(ObjectAt(ch, id).owner, addr))
    IN  [i \in 1..Len(ids) |-> ObjectRef(ids[i], ObjectAt(ch, ids[i]).version)]

\* A transaction built with `gas: None` leaves the choice of the gas object
\* to the client, which takes the first coin the address owns.
select_gas(ch, addr) == CoinsOf(ch, addr)[1]

\* the reference names a live object at its current version
Current(ch, ref) ==
    HasObject(ch, ref.object_id) /\ ObjectAt(ch, ref.object_id).version = ref.version

\* the reference can pay the gas of a transaction of the address: it names
\* a coin the address still owns, at the coin's current version
Spendable(ch, ref, addr) ==
    /\ Current(ch, ref)
    /\ OwnerIs(ObjectAt(ch, ref.object_id).owner, addr)

\* The ledger after transaction `by` paid its gas with the coin: the coin is
\* written, so its version moves on.
ChargeGas(ch, ref, by) ==
    { IF o.id = ref.object_id
        THEN [o EXCEPT !.version = @ + 1, !.previous_transaction = by]
        ELSE o : o \in ch }

(***************************************************************************)
(* Extraction of ids and ObjectArgs from transaction responses.            *)
(***************************************************************************)
Ok(v) == [res |-> "ok", val |-> v]
Panic(site) == [res |-> "panic", val |-> site]
Err(e) == [res |-> "err", val |-> e]

\* main.rs step 6 / get_ramm_id_from_tx_response: the first immutable
\* created object is the package; expect() panics when there is none.
get_ramm_id_from_tx_response(created) ==
    LET imm == SelectSeq(created, LAMBDA oor : oor.owner.kind = "Immutable")
    IN  IF imm = <<>>
          THEN Panic("Publish Tx should result in at least 1 immutable object")
          ELSE Ok(imm[1].reference.object_id)

\* Variant of build_ramm_obj_arg that references the RAMM read-only.
build_ramm_obj_arg_read_only(created) ==
    LET owned_obj_refs == SelectSeq(created, LAMBDA oor : oor.owner.kind = "Shared")
    IN  IF owned_obj_refs = <<>>
          THEN Panic("The RAMM creation should result in exactly 1 new shared object")
          ELSE LET ramm_owned_obj_ref == owned_obj_refs[1]
               IN  Ok(SharedObject(ramm_owned_obj_ref.reference.object_id,
                                   ramm_owned_obj_ref.owner.initial_shared_version,
                                   FALSE))

\* build_ramm_obj_arg: the first shared created object is the RAMM;
\* expect() panics when there is none.
build_ramm_obj_arg(created) ==
    LET owned_obj_refs == SelectSeq(created, LAMBDA oor : oor.owner.kind = "Shared")
    IN  IF owned_obj_refs = <<>>
          THEN Panic("The RAMM creation should result in exactly 1 new shared object")
          ELSE LET ramm_owned_obj_ref == owned_obj_refs[1]
               IN  Ok(SharedObject(ramm_owned_obj_ref.reference.object_id,
                                   ramm_owned_obj_ref.owner.initial_shared_version,
                                   TRUE))

\* Variant of build_ramm_cap_obj_args_collect whose assertion lets more than
\* two caller-owned objects through.
build_ramm_cap_obj_args_collect_at_least_two(created, addr) ==
    LET mine == SelectSeq(created, LAMBDA oor : OwnerIs(oor.owner, addr))
        args == [i \in 1..Len(mine) |->
                    ImmOrOwnedObject(mine[i].reference.object_id,
                                     mine[i].reference.version)]
    IN  IF Len(args) >= 2
          THEN Ok(args)
          ELSE Panic("assert cap_obj_args.len() == 2")

\* build_ramm_cap_obj_args, up to the type query: the created objects owned
\* by the caller, as ImmOrOwnedObject args; assert!(len == 2).
build_ramm_cap_obj_args_collect(created, addr) ==
    LET mine == SelectSeq(created, LAMBDA oor : OwnerIs(oor.owner, addr))
        args == [i \in 1..Len(mine) |->
                    ImmOrOwnedObject(mine[i].reference.object_id,
                                     mine[i].reference.version)]
    IN  IF Len(args) = 2
          THEN Ok(args)
          ELSE Panic("assert cap_obj_args.len() == 2")

\* Variant of build_ramm_cap_obj_args_match that takes an unknown type name
\* for the admin capability's.
build_ramm_cap_obj_args_match_guess(ty, caps) ==
    CASE ty = "Package"         -> Panic("Type of cap object is ObjectType::Package")
      [] ty = "RAMMNewAssetCap" -> Ok(<<caps[2], caps[1]>>)
      [] OTHER                  -> Ok(<<caps[1], caps[2]>>)

\* Variant of build_ramm_cap_obj_args_match with the two arms exchanged.
build_ramm_cap_obj_args_match_swapped(ty, caps) ==
    CASE ty = "Package"         -> Panic("Type of cap object is ObjectType::Package")
      [] ty = "RAMMAdminCap"    -> Ok(<<caps[2], caps[1]>>)
      [] ty = "RAMMNewAssetCap" -> Ok(<<caps[1], caps[2]>>)
      [] OTHER                  -> Panic("MoveObjectType must be of either capability")

\* build_ramm_cap_obj_args, after the type query: the queried type of
\* cap_obj_args[0] decides the role of both objects.
build_ramm_cap_obj_args_match(ty, caps) ==
    CASE ty = "Package"         -> Panic("Type of cap object is ObjectType::Package")
      [] ty = "RAMMAdminCap"    -> Ok(<<caps[1], caps[2]>>)
      [] ty = "RAMMNewAssetCap" -> Ok(<<caps[2], caps[1]>>)
      [] OTHER                  -> Panic("MoveObjectType must be of either capability")

\* build_aggr_obj_args: the ids requested from the node, in asset order
aggr_ids_of(c) == [i \in 1..Len(c.assets) |-> c.assets[i].aggregator_address]

\* One element of the batched read's answer: the object's data with its
\* owner (NoOwner when the owner field is empty), or an error for that
\* object.
AggrObj(id, owner) == [id |-> id, found |-> TRUE, owner |-> owner]
AggrMissing(id) == [id |-> id, found |-> FALSE, owner |-> Immutable]

\* initial shared version of a shared aggregator object
AggrVersion(id) == 10 + id[2]

\* what the node may answer for the aggregator with the given id
AggrAnswers(id) ==
    { AggrObj(id, Shared(AggrVersion(id))),
      AggrObj(id, AddressOwner(OtherAddress)),
      AggrObj(id, NoOwner),
      AggrMissing(id) }

\* the answers of the batched read: one per requested id, in request order
AggrResponses(ids) ==
    { r \in [1..Len(ids) -> UNION { AggrAnswers(ids[i]) : i \in 1..Len(ids) }] :
        \A i \in 1..Len(ids) : r[i] \in AggrAnswers(ids[i]) }

\* Variant of aggr_loop that takes every found object, shared or not.
RECURSIVE aggr_loop_unchecked_owner(_, _, _, _)
aggr_loop_unchecked_owner(objs, ids, ix, acc) ==
    IF ix > Len(objs) THEN Ok(acc)
    ELSE IF ~objs[ix].found THEN Err("AggregatorObjectResponseError")
    ELSE IF objs[ix].owner.kind = "None" THEN Err("AggregatorObjectOwnerError")
    ELSE IF ix > Len(ids) THEN Panic("aggr_ids index out of bounds")
    ELSE aggr_loop_unchecked_owner(objs, ids, ix + 1,
                   Append(acc, SharedObject(ids[ix],
                                            objs[ix].owner.initial_shared_version,
                                            FALSE)))

\* build_aggr_obj_args, after the batched read: the loop over the answers,
\* from position ix on, with the references collected so far.  The loop
\* stops at the first answer it cannot take: an object error and an object
\* without owner return Err, a non-shared owner panics; the id comes from aggr_ids[ix] and the version
\* from the answer.
aggr_loop(objs, ids, ix, acc) ==
    LET stops == { i \in ix..Len(objs) :
                     \/ ~objs[i].found
                     \/ objs[i].owner.kind # "Shared"
                     \/ i > Len(ids) }
    IN  IF stops = {}
          THEN Ok(acc \o [k \in 1..(Len(objs) + 1 - ix) |->
                            SharedObject(ids[ix + k - 1],
                                         objs[ix + k - 1].owner.initial_shared_version,
                                         FALSE)])
          ELSE LET i == CHOOSE m \in stops : \A n \in stops : m <= n
               IN  IF ~objs[i].found THEN Err("AggregatorObjectResponseError")
                   ELSE IF objs[i].owner.kind = "None"
                     THEN Err("AggregatorObjectOwnerError")
                   ELSE IF objs[i].owner.kind # "Shared"
                     THEN Panic("Owner of Aggregator object must be Shared")
                   ELSE Panic("aggr_ids index out of bounds")

\* Variant of build_aggr_obj_args without the final assert_eq.
build_aggr_obj_args_unasserted(objs, c) ==
    aggr_loop(objs, aggr_ids_of(c), 1, <<>>)

build_aggr_obj_args(objs, c) ==
    LET r == aggr_loop(objs, aggr_ids_of(c), 1, <<>>)
    IN  IF r.res # "ok" THEN r
        ELSE IF Len(r.val) # c.asset_count
          THEN Panic("assert_eq aggr_obj_args.len() asset_count")
        ELSE r

(***************************************************************************)
(* Transactions.  A transaction is its sender, its gas data and a          *)
(* programmable transaction: inputs (CallArgs) and commands whose          *)
(* arguments are 0-based indices into the inputs (Argument::Input).        *)
(***************************************************************************)
NoPure == [ty |-> "", val |-> 0]
ObjectCallArg(oa) == [kind |-> "Object", obj |-> oa, pure |-> NoPure]
PureCallArg(ty, v) == [kind |-> "Pure", obj |-> NoObjArg, pure |-> [ty |-> ty, val |-> v]]

MoveCall(pkg, mod, fn, tyargs, args) ==
    [package |-> pkg, module |-> mod, function |-> fn,
     type_arguments |-> tyargs, arguments |-> args]

\* ProgrammableTransactionBuilder::new
NewPtb == [inputs |-> <<>>, commands |-> <<>>, ok |-> TRUE]

\* Positions of the inputs equal to the CallArg (pure values are keyed by
\* their bytes, objects by their id).
SameInput(inputs, ca) ==
    { i \in 1..Len(inputs) :
        /\ inputs[i].kind = ca.kind
        /\ IF ca.kind = "Object" THEN inputs[i].obj.id = ca.obj.id
                                 ELSE inputs[i].pure = ca.pure }

\* ptb.obj(..).unwrap() and ptb.pure(..).unwrap(): the input is registered
\* once and its Argument::Input index returned; a second registration of
\* the same input returns the first index.  A shared object registered
\* again with the same initial shared version keeps one input, mutable when
\* either registration is; an object registered again with any other
\* ObjectArg is an error, and unwrap panics.
ptb_input(ptb, ca) ==
    LET hits == SameInput(ptb.inputs, ca)
    IN  IF hits = {}
          THEN [ptb |-> [ptb EXCEPT !.inputs = Append(@, ca)],
                arg |-> Len(ptb.inputs)]
          ELSE LET i == CHOOSE i \in hits : TRUE
                   old == ptb.inputs[i]
               IN  IF /\ ca.kind = "Object"
                      /\ old.obj.kind = "SharedObject"
                      /\ ca.obj.kind = "SharedObject"
                      /\ old.obj.version = ca.obj.version
                     THEN [ptb |-> [ptb EXCEPT !.inputs[i].obj.mutable =
                                                   @ \/ ca.obj.mutable],
                           arg |-> i - 1]
                     ELSE [ptb |-> [ptb EXCEPT !.ok = @ /\ old = ca],
                           arg |-> i - 1]

\* ptb.programmable_move_call
programmable_move_call(ptb, pkg, mod, fn, tyargs, args) ==
    [ptb EXCEPT !.commands = Append(@, MoveCall(pkg, mod, fn, tyargs, args))]

\* TransactionData::new_programmable
TransactionData(sender, gas_payment, pt, budget, price) ==
    [sender |-> sender, gas_payment |-> gas_payment,
     pt |-> [inputs |-> pt.inputs, commands |-> pt.commands],
     gas_budget |-> budget, gas_price |-> price]

NoTx == TransactionData("", NoCoin, NewPtb, 0, 0)

\* Variant of new_ramm_tx that passes the sender's address where the fee
\* collection address belongs.
new_ramm_tx_sender_as_fee(c, sender, ramm_pkg_id) ==
    LET r == ptb_input(NewPtb, PureCallArg("address", sender))
    IN  TransactionData(sender, NoCoin,
            programmable_move_call(r.ptb, ramm_pkg_id, RAMM_MODULE_NAME, "new_ramm",
                                   <<>>, <<r.arg>>),
            CREATE_RAMM_GAS_BUDGET, 0)

\* new_ramm_tx: one call of ramm::new_ramm with the fee collection address
new_ramm_tx(c, sender, ramm_pkg_id) ==
    LET r == ptb_input(NewPtb, PureCallArg("address", c.fee_collection_address))
    IN  TransactionData(sender, NoCoin,
            programmable_move_call(r.ptb, ramm_pkg_id, RAMM_MODULE_NAME, "new_ramm",
                                   <<>>, <<r.arg>>),
            CREATE_RAMM_GAS_BUDGET, 0)

\* publish_tx: the publish transaction, gas object left to the client
publish_tx(sender) ==
    TransactionData(sender, NoCoin,
        programmable_move_call(NewPtb, NoId, "", "publish", <<>>, <<>>),
        PACKAGE_PUBLICATION_GAS_BUDGET, 0)

\* Variant of add_assets_loop that stops one asset short.
RECURSIVE add_assets_loop_skips_last(_, _, _, _, _, _, _, _)
add_assets_loop_skips_last(ptb, c, pkg, ramm_arg, admin_cap_arg, new_asset_cap_arg, aggrs, ix) ==
    IF ix + 1 >= c.asset_count THEN ptb
    ELSE IF ix + 1 > Len(c.assets) \/ ix + 1 > Len(aggrs)
      THEN [ptb EXCEPT !.ok = FALSE]
    ELSE
      LET asset_data == c.assets[ix + 1]
          a == ptb_input(ptb, ObjectCallArg(aggrs[ix + 1]))
          m == ptb_input(a.ptb, PureCallArg("u64", asset_data.minimum_trade_amount))
          d == ptb_input(m.ptb, PureCallArg("u8", asset_data.decimal_places))
          move_call_args == <<ramm_arg, a.arg, m.arg, d.arg,
                              admin_cap_arg, new_asset_cap_arg>>
      IN  add_assets_loop_skips_last(
              programmable_move_call(d.ptb, pkg, RAMM_MODULE_NAME, "add_asset_to_ramm",
                                     <<asset_data.asset_type>>, move_call_args),
              c, pkg, ramm_arg, admin_cap_arg, new_asset_cap_arg, aggrs, ix + 1)

\* Variant of add_assets_loop that passes the decimal places before the
\* minimum trade amount.
RECURSIVE add_assets_loop_swaps_pure_args(_, _, _, _, _, _, _, _)
add_assets_loop_swaps_pure_args(ptb, c, pkg, ramm_arg, admin_cap_arg, new_asset_cap_arg, aggrs, ix) ==
    IF ix >= c.asset_count THEN ptb
    ELSE IF ix + 1 > Len(c.assets) \/ ix + 1 > Len(aggrs)
      THEN [ptb EXCEPT !.ok = FALSE]
    ELSE
      LET asset_data == c.assets[ix + 1]
          a == ptb_input(ptb, ObjectCallArg(aggrs[ix + 1]))
          m == ptb_input(a.ptb, PureCallArg("u64", asset_data.minimum_trade_amount))
          d == ptb_input(m.ptb, PureCallArg("u8", asset_data.decimal_places))
          move_call_args == <<ramm_arg, a.arg, d.arg, m.arg,
                              admin_cap_arg, new_asset_cap_arg>>
      IN  add_assets_loop_swaps_pure_args(
              programmable_move_call(d.ptb, pkg, RAMM_MODULE_NAME, "add_asset_to_ramm",
                                     <<asset_data.asset_type>>, move_call_args),
              c, pkg, ramm_arg, admin_cap_arg, new_asset_cap_arg, aggrs, ix + 1)

\* add_assets_and_init_ramm, step 2: the loop `for ix in 0..asset_count`,
\* from iteration ix (0-based) on.  Indexing past the end of assets or of
\* aggr_obj_args panics.
RECURSIVE add_assets_loop(_, _, _, _, _, _, _, _)
add_assets_loop(ptb, c, pkg, ramm_arg, admin_cap_arg, new_asset_cap_arg, aggrs, ix) ==
    IF ix >= c.asset_count THEN ptb
    ELSE IF ix + 1 > Len(c.assets) \/ ix + 1 > Len(aggrs)
      THEN [ptb EXCEPT !.ok = FALSE]
    ELSE
      LET asset_data == c.assets[ix + 1]
          a == ptb_input(ptb, ObjectCallArg(aggrs[ix + 1]))
          m == ptb_input(a.ptb, PureCallArg("u64", asset_data.minimum_trade_amount))
          d == ptb_input(m.ptb, PureCallArg("u8", asset_data.decimal_places))
          move_call_args == <<ramm_arg, a.arg, m.arg, d.arg,
                              admin_cap_arg, new_asset_cap_arg>>
      IN  add_assets_loop(
              programmable_move_call(d.ptb, pkg, RAMM_MODULE_NAME, "add_asset_to_ramm",
                                     <<asset_data.asset_type>>, move_call_args),
              c, pkg, ramm_arg, admin_cap_arg, new_asset_cap_arg, aggrs, ix + 1)

\* Variant of add_assets_and_init_ramm that initializes the RAMM before it
\* adds the assets.
add_assets_and_init_ramm_init_first(c, sender, pkg, ramm, admin, new_asset, aggrs, gas_coin, price) ==
    LET r == ptb_input(NewPtb, ObjectCallArg(ramm))
        a == ptb_input(r.ptb, ObjectCallArg(admin))
        n == ptb_input(a.ptb, ObjectCallArg(new_asset))
        first == programmable_move_call(n.ptb, pkg, RAMM_MODULE_NAME, "initialize_ramm",
                                        <<>>, <<r.arg, a.arg, n.arg>>)
        ptb == add_assets_loop(first, c, pkg, r.arg, a.arg, n.arg, aggrs, 0)
    IN  IF ptb.ok
          THEN Ok(TransactionData(sender, gas_coin, ptb, RAMM_PTB_GAS_BUDGET, price))
          ELSE Panic("add_assets_and_init_ramm")

\* Variant of add_assets_and_init_ramm that leaves the gas coin to the
\* client and the gas price unset, as the other two transactions do.
add_assets_and_init_ramm_no_gas_context(c, sender, pkg, ramm, admin, new_asset, aggrs, gas_coin, price) ==
    LET r == ptb_input(NewPtb, ObjectCallArg(ramm))
        a == ptb_input(r.ptb, ObjectCallArg(admin))
        n == ptb_input(a.ptb, ObjectCallArg(new_asset))
        looped == add_assets_loop(n.ptb, c, pkg, r.arg, a.arg, n.arg, aggrs, 0)
        ptb == programmable_move_call(looped, pkg, RAMM_MODULE_NAME, "initialize_ramm",
                                      <<>>, <<r.arg, a.arg, n.arg>>)
    IN  IF looped.ok
          THEN Ok(TransactionData(sender, NoCoin, ptb, RAMM_PTB_GAS_BUDGET, 0))
          ELSE Panic("add_assets_and_init_ramm")

\* Variant of add_assets_and_init_ramm whose initialize_ramm call targets the
\* id of the RAMM object instead of the package id.
add_assets_and_init_ramm_init_at_ramm(c, sender, pkg, ramm, admin, new_asset, aggrs, gas_coin, price) ==
    LET r == ptb_input(NewPtb, ObjectCallArg(ramm))
        a == ptb_input(r.ptb, ObjectCallArg(admin))
        n == ptb_input(a.ptb, ObjectCallArg(new_asset))
        looped == add_assets_loop(n.ptb, c, pkg, r.arg, a.arg, n.arg, aggrs, 0)
        ptb == programmable_move_call(looped, ramm.id, RAMM_MODULE_NAME, "initialize_ramm",
                                      <<>>, <<r.arg, a.arg, n.arg>>)
    IN  IF looped.ok
          THEN Ok(TransactionData(sender, gas_coin, ptb, RAMM_PTB_GAS_BUDGET, price))
          ELSE Panic("add_assets_and_init_ramm")

\* add_assets_and_init_ramm: the PTB that adds the assets and initializes
\* the RAMM, as TransactionData.
add_assets_and_init_ramm(c, sender, pkg, ramm, admin, new_asset, aggrs, gas_coin, price) ==
    LET r == ptb_input(NewPtb, ObjectCallArg(ramm))
        a == ptb_input(r.ptb, ObjectCallArg(admin))
        n == ptb_input(a.ptb, ObjectCallArg(new_asset))
        looped == add_assets_loop(n.ptb, c, pkg, r.arg, a.arg, n.arg, aggrs, 0)
        ptb == programmable_move_call(looped, pkg, RAMM_MODULE_NAME, "initialize_ramm",
                                      <<>>, <<r.arg, a.arg, n.arg>>)
    IN  IF looped.ok
          THEN Ok(TransactionData(sender, gas_coin, ptb, RAMM_PTB_GAS_BUDGET, price))
          ELSE Panic("add_assets_and_init_ramm")

(***************************************************************************)
(* Execution of a programmable transaction by the ledger (environment):    *)
(* the commands run in order on a working copy of the ledger; the effects  *)
(* are committed only if no command aborts.                                *)
(***************************************************************************)
\* the ObjectArg a command's argument refers to
ArgObj(tx, a) ==
    IF a + 1 \in 1..Len(tx.pt.inputs) THEN tx.pt.inputs[a + 1].obj ELSE NoObjArg

\* The input refers to a live object of the given type, at its version.
ValidInput(ch, oa, ty) ==
    /\ HasObject(ch, oa.id)
    /\ LET o == ObjectAt(ch, oa.id)
       IN  /\ o.ty = ty
           /\ IF oa.kind = "SharedObject"
                THEN o.owner.kind = "Shared"
                     /\ o.owner.initial_shared_version = oa.version
                ELSE oa.kind = "ImmOrOwnedObject" /\ o.version = oa.version

\* the ledger with object id replaced by its updated state
WithObject(ch, o) == { x \in ch : x.id # o.id } \cup {o}

\* One command of the ramm module on the working copy; ok = FALSE: it aborts.
ExecCommand(ch, tx, cmd) ==
    LET n == Len(cmd.arguments)
        ramm == ArgObj(tx, cmd.arguments[1])
        admin == ArgObj(tx, cmd.arguments[n - 1])
        newcap == ArgObj(tx, cmd.arguments[n])
        typed == /\ n >= 3
                 /\ ValidInput(ch, ramm, "RAMM")
                 /\ ramm.mutable
                 /\ ValidInput(ch, admin, "RAMMAdminCap")
                 /\ ValidInput(ch, newcap, "RAMMNewAssetCap")
                 /\ ~ObjectAt(ch, ramm.id).active
    IN  IF cmd.function = "add_asset_to_ramm" /\ n = 6 /\ typed
             /\ Len(cmd.type_arguments) = 1
          THEN [ok |-> TRUE,
                chain |-> WithObject(ch, [ObjectAt(ch, ramm.id) EXCEPT
                              !.assets = Append(@, cmd.type_arguments[1])])]
        ELSE IF cmd.function = "initialize_ramm" /\ n = 3 /\ typed
          THEN [ok |-> TRUE,
                chain |-> WithObject(ch, [ObjectAt(ch, ramm.id) EXCEPT !.active = TRUE])]
        ELSE [ok |-> FALSE, chain |-> ch]

\* Commands i.. of the transaction on the working copy; the command at
\* position abort_at (0: none) aborts for a reason of its own.
RECURSIVE ExecFrom(_, _, _, _)
ExecFrom(ch, tx, i, abort_at) ==
    IF i > Len(tx.pt.commands) THEN [ok |-> TRUE, chain |-> ch]
    ELSE IF i = abort_at THEN [ok |-> FALSE, chain |-> ch]
    ELSE LET r == ExecCommand(ch, tx, tx.pt.commands[i])
         IN  IF r.ok THEN ExecFrom(r.chain, tx, i + 1, abort_at) ELSE r

\* The ledger after the transaction, and its status: all of the effects, or
\* none of them.
ExecutePtb(ch, tx, abort_at) ==
    LET r == ExecFrom(ch, tx, 1, abort_at)
    IN  IF r.ok THEN [status |-> "success", chain |-> r.chain]
                ELSE [status |-> "failure", chain |-> ch]

(***************************************************************************)
(* The log of network calls.  Each entry is a call, the object ids it      *)
(* names, and its status: "pending" while awaited, then "ok" or "err".     *)
(***************************************************************************)
\* A call is made on behalf of an address (the signer of a transaction, the
\* owner whose coins are listed) and names object ids.
IssueFor(op, ids, addr) ==
    log' = Append(log, [op |-> op, ids |-> ids, address |-> addr, st |-> "pending"])

Issue(op, ids) == IssueFor(op, ids, "")

Complete(st) == log' = [log EXCEPT ![Len(log)].st = st]

\* The run ends: a returned Err, a panic, or Ok.
Finish(how, what) ==
    /\ pc' = "done"
    /\ outcome' = how
    /\ err' = what

\* A step that returns normally and goes on to position p.
Goto(p) ==
    /\ pc' = p
    /\ UNCHANGED <<outcome, err>>

\* The awaited call fails: `.map_err(e)?` returns Err(e).
RpcFails(e) ==
    /\ Complete("err")
    /\ Finish("err", e)

locals == <<client_address, ramm_package_id, ramm_obj_arg, cap_obj_args,
            cap_obj_ty, admin_cap_obj_arg, new_asset_cap_obj_arg, aggr_objs,
            aggr_obj_args, coin, gas_price, ptb_tx>>

Init ==
    /\ cfg \in Configs
    /\ pc = "parse"
    /\ outcome = "running"
    /\ err = ""
    /\ log = <<>>
    /\ chain = AccountCoins
    /\ client_address = ""
    /\ ramm_package_id = NoId
    /\ ramm_obj_arg = NoObjArg
    /\ cap_obj_args = <<>>
    /\ cap_obj_ty = ""
    /\ admin_cap_obj_arg = NoObjArg
    /\ new_asset_cap_obj_arg = NoObjArg
    /\ aggr_objs = <<>>
    /\ aggr_obj_args = <<>>
    /\ coin = NoCoin
    /\ gas_price = 0
    /\ ptb_tx = NoTx
    /\ txs = <<>>
    /\ ptb_status = ""
    /\ input = ""

\* Variant of ParseCfg that goes on whatever the validation says.
ParseCfgLenient ==
    /\ pc = "parse"
    /\ Goto("client")
    /\ UNCHANGED input
    /\ UNCHANGED <<cfg, log, chain, locals, txs, ptb_status>>

(***************************************************************************)
(* main: the config is parsed and validated before anything else           *)
(* (parse_ramm_cfg).                                                       *)
(***************************************************************************)
ParseCfg ==
    /\ pc = "parse"
    /\ IF validate_ramm_cfg(cfg)
         THEN Goto("client")
         ELSE Finish("err", "InvalidConfigData")
    /\ UNCHANGED input
    /\ UNCHANGED <<cfg, log, chain, locals, txs, ptb_status>>

(***************************************************************************)
(* ramm_deployment: client, active address and keystore.                   *)
(***************************************************************************)
\* get_suibase_and_sui_client: the workdir and the RPC URL are local; the
\* client is built over the network.
BuildClientIssue ==
    /\ pc = "client"
    /\ \E local \in {"ok", "SuibaseWorkdirError", "RpcUrlSelectionError"} :
          IF local = "ok"
            THEN Issue("build_client", <<>>) /\ Goto("await_client")
            ELSE Finish("err", local) /\ UNCHANGED log
    /\ UNCHANGED input
    /\ UNCHANGED <<cfg, chain, locals, txs, ptb_status>>

\* The client is built, or not; then client_sui_address("active") and
\* get_keystore, which are local.  The address is bound before the keystore
\* is opened, so a keystore failure leaves it bound.
BuildClientRespond ==
    /\ pc = "await_client"
    /\ \/ /\ RpcFails("BuildSuiClientFromRpcUrlError")
          /\ UNCHANGED client_address
       \/ /\ Complete("ok")
          /\ \E local \in {"ok", "SuiClientActiveAddressError",
                           "KeystorePathnameError", "KeystoreOpenError"} :
                CASE local = "ok" ->
                       client_address' = ActiveAddress /\ Goto("resolve_pkg")
                  [] local = "SuiClientActiveAddressError" ->
                       Finish("err", local) /\ UNCHANGED client_address
                  [] OTHER ->
                       client_address' = ActiveAddress /\ Finish("err", local)
    /\ UNCHANGED input
    /\ UNCHANGED <<cfg, chain, ramm_package_id, ramm_obj_arg, cap_obj_args,
                   cap_obj_ty, admin_cap_obj_arg, new_asset_cap_obj_arg, aggr_objs,
                   aggr_obj_args, coin, gas_price, ptb_tx, txs, ptb_status>>

(***************************************************************************)
(* sign_and_execute_tx: the transaction is signed with the keystore        *)
(* (local) and submitted; the caller waits for local execution.            *)
(***************************************************************************)
sign_and_execute_tx(op, tx, signer, wait) ==
    \E signed \in BOOLEAN :
        IF signed
          THEN /\ IssueFor(op, <<>>, signer)
               /\ txs' = Append(txs, tx)
               /\ Goto(wait)
          ELSE /\ Finish("err", "TxSignatureError")
               /\ UNCHANGED <<log, txs>>

(***************************************************************************)
(* ramm_deployment: the package id, from the config or from publication.   *)
(***************************************************************************)
\* Variant of ResolvePkgFromToml that takes the id of a published package
\* instead of the configured one.
ResolvePkgFromTomlPublished ==
    /\ pc = "resolve_pkg"
    /\ cfg.ramm_pkg_addr_or_path.tag = "FromTomlConfig"
    /\ ramm_package_id' = <<"pkg", 1>>
    /\ Goto("create_build")
    /\ UNCHANGED input
    /\ UNCHANGED <<cfg, log, chain, client_address, ramm_obj_arg, cap_obj_args,
                   cap_obj_ty, admin_cap_obj_arg, new_asset_cap_obj_arg, aggr_objs,
                   aggr_obj_args, coin, gas_price, ptb_tx, txs, ptb_status>>

\* RAMMPkgAddrSrc::FromTomlConfig(addr) => *addr
ResolvePkgFromToml ==
    /\ pc = "resolve_pkg"
    /\ cfg.ramm_pkg_addr_or_path.tag = "FromTomlConfig"
    /\ ramm_package_id' = cfg.ramm_pkg_addr_or_path.addr
    /\ Goto("create_build")
    /\ UNCHANGED input
    /\ UNCHANGED <<cfg, log, chain, client_address, ramm_obj_arg, cap_obj_args,
                   cap_obj_ty, admin_cap_obj_arg, new_asset_cap_obj_arg, aggr_objs,
                   aggr_obj_args, coin, gas_price, ptb_tx, txs, ptb_status>>

\* publish_tx: the package is compiled (local), then the node builds the
\* publish transaction.
PublishBuildIssue ==
    /\ pc = "resolve_pkg"
    /\ cfg.ramm_pkg_addr_or_path.tag = "FromPkgPublication"
    /\ \E compiled \in BOOLEAN :
          IF compiled
            THEN Issue("publish_build", <<>>) /\ Goto("await_publish_build")
            ELSE Finish("err", "PkgBuildError") /\ UNCHANGED log
    /\ UNCHANGED input
    /\ UNCHANGED <<cfg, chain, locals, txs, ptb_status>>

PublishBuildRespond ==
    /\ pc = "await_publish_build"
    /\ \/ RpcFails("PublishTxError")
       \/ Complete("ok") /\ Goto("publish_submit")
    /\ UNCHANGED input
    /\ UNCHANGED <<cfg, chain, locals, txs, ptb_status>>

\* publish_ramm_pkg_runner: sign and submit the publish transaction.
PublishSubmitIssue ==
    /\ pc = "publish_submit"
    /\ sign_and_execute_tx("publish_submit", publish_tx(client_address),
                           client_address, "await_publish_submit")
    /\ UNCHANGED input
    /\ UNCHANGED <<cfg, chain, locals, ptb_status>>

\* The node answers the publish transaction, whose gas the ledger charged to
\* the sender's coin; the package id is taken from the created
\* objects.
PublishSubmitRespond ==
    /\ pc = "await_publish_submit"
    /\ \/ /\ RpcFails("TxBlockExecutionError")
          /\ UNCHANGED <<chain, ramm_package_id>>
       \/ LET charged == ChargeGas(chain, select_gas(chain, client_address),
                                    "publish")
          IN
          /\ CoinsOf(chain, client_address) # <<>>
          /\ \E ks \in Seqs(PublishKinds, MaxPublished) :
             LET r == get_ramm_id_from_tx_response(CreatedRefs(ks, client_address))
             IN  /\ Complete("ok")
                 /\ chain' = charged \cup CreatedObjects(ks, client_address)
                 /\ IF r.res = "ok"
                      THEN ramm_package_id' = r.val /\ Goto("create_build")
                      ELSE Finish(r.res, r.val) /\ UNCHANGED ramm_package_id
    /\ UNCHANGED input
    /\ UNCHANGED <<cfg, client_address, ramm_obj_arg, cap_obj_args,
                   cap_obj_ty, admin_cap_obj_arg, new_asset_cap_obj_arg, aggr_objs,
                   aggr_obj_args, coin, gas_price, ptb_tx, txs, ptb_status>>

(***************************************************************************)
(* new_ramm_tx_runner: the creation transaction.                           *)
(***************************************************************************)
\* new_ramm_tx: the node builds the move call.
CreateBuildIssue ==
    /\ pc = "create_build"
    /\ Issue("create_build", <<>>)
    /\ Goto("await_create_build")
    /\ UNCHANGED input
    /\ UNCHANGED <<cfg, chain, locals, txs, ptb_status>>

CreateBuildRespond ==
    /\ pc = "await_create_build"
    /\ \/ RpcFails("NewRammTxError")
       \/ Complete("ok") /\ Goto("create_submit")
    /\ UNCHANGED input
    /\ UNCHANGED <<cfg, chain, locals, txs, ptb_status>>

CreateSubmitIssue ==
    /\ pc = "create_submit"
    /\ sign_and_execute_tx("create_submit",
                           new_ramm_tx(cfg, client_address, ramm_package_id),
                           client_address, "await_create_submit")
    /\ UNCHANGED input
    /\ UNCHANGED <<cfg, chain, locals, ptb_status>>

\* The node answers the creation transaction, whose gas the ledger charged
\* to the sender's coin.  build_ramm_obj_args then
\* runs up to its first await: build_ramm_obj_arg, and the collection of
\* the caller-owned objects in build_ramm_cap_obj_args.
CreateSubmitRespond ==
    /\ pc = "await_create_submit"
    /\ \/ /\ RpcFails("TxBlockExecutionError")
          /\ UNCHANGED <<chain, ramm_obj_arg, cap_obj_args>>
       \/ LET charged == ChargeGas(chain, select_gas(chain, client_address),
                                    "create")
          IN
          /\ CoinsOf(chain, client_address) # <<>>
          /\ \E ks \in Seqs(CreateKinds, MaxCreated) :
             LET created == CreatedRefs(ks, client_address)
                 ramm == build_ramm_obj_arg(created)
                 caps == build_ramm_cap_obj_args_collect(created, client_address)
             IN  /\ Complete("ok")
                 /\ chain' = charged \cup CreatedObjects(ks, client_address)
                 /\ IF ramm.res # "ok"
                      THEN /\ Finish(ramm.res, ramm.val)
                           /\ UNCHANGED <<ramm_obj_arg, cap_obj_args>>
                    ELSE IF caps.res # "ok"
                      THEN /\ Finish(caps.res, caps.val)
                           /\ ramm_obj_arg' = ramm.val
                           /\ UNCHANGED cap_obj_args
                    ELSE /\ Goto("cap_query")
                         /\ ramm_obj_arg' = ramm.val
                         /\ cap_obj_args' = caps.val
    /\ UNCHANGED input
    /\ UNCHANGED <<cfg, client_address, ramm_package_id, cap_obj_ty,
                   admin_cap_obj_arg, new_asset_cap_obj_arg, aggr_objs,
                   aggr_obj_args, coin, gas_price, ptb_tx, txs, ptb_status>>

(***************************************************************************)
(* build_ramm_cap_obj_args: the type query and the assignment of roles.    *)
(***************************************************************************)
\* Variant of CapQueryIssue that queries the second caller-owned object.
CapQueryIssueSecond ==
    /\ pc = "cap_query"
    /\ Issue("cap_type_query", <<cap_obj_args[2].id>>)
    /\ Goto("await_cap_query")
    /\ UNCHANGED input
    /\ UNCHANGED <<cfg, chain, locals, txs, ptb_status>>

\* get_object_with_options(cap_obj_args[0].id(), with_type)
CapQueryIssue ==
    /\ pc = "cap_query"
    /\ Issue("cap_type_query", <<cap_obj_args[1].id>>)
    /\ Goto("await_cap_query")
    /\ UNCHANGED input
    /\ UNCHANGED <<cfg, chain, locals, txs, ptb_status>>

\* Variant of CapQueryRespond that, when the query fails, takes the first
\* object for the admin capability and goes on.
CapQueryRespondGuesses ==
    /\ pc = "await_cap_query"
    /\ LET id == log[Len(log)].ids[1]
       IN  \/ /\ Complete("err")
              /\ admin_cap_obj_arg' = cap_obj_args[1]
              /\ new_asset_cap_obj_arg' = cap_obj_args[2]
              /\ Goto("aggr")
              /\ UNCHANGED cap_obj_ty
           \/ /\ HasObject(chain, id)
              /\ Complete("ok")
              /\ cap_obj_ty' = ObjectAt(chain, id).ty
              /\ LET r == build_ramm_cap_obj_args_match(ObjectAt(chain, id).ty,
                                                        cap_obj_args)
                 IN  IF r.res = "ok"
                       THEN /\ admin_cap_obj_arg' = r.val[1]
                            /\ new_asset_cap_obj_arg' = r.val[2]
                            /\ Goto("aggr")
                       ELSE /\ Finish(r.res, r.val)
                            /\ UNCHANGED <<admin_cap_obj_arg, new_asset_cap_obj_arg>>
    /\ UNCHANGED input
    /\ UNCHANGED <<cfg, chain, client_address, ramm_package_id, ramm_obj_arg,
                   cap_obj_args, aggr_objs, aggr_obj_args, coin, gas_price,
                   ptb_tx, txs, ptb_status>>

\* The node answers with the on-chain type of the queried object, or with
\* an object error (unwrap panics), or the call fails.
CapQueryRespond ==
    /\ pc = "await_cap_query"
    /\ LET id == log[Len(log)].ids[1]
       IN  \/ /\ RpcFails("CapObjectQueryError")
              /\ UNCHANGED <<cap_obj_ty, admin_cap_obj_arg, new_asset_cap_obj_arg>>
           \/ /\ Complete("ok")
              /\ Finish("panic", "cap_object.object().unwrap()")
              /\ UNCHANGED <<cap_obj_ty, admin_cap_obj_arg, new_asset_cap_obj_arg>>
           \/ /\ HasObject(chain, id)
              /\ Complete("ok")
              /\ cap_obj_ty' = ObjectAt(chain, id).ty
              /\ LET r == build_ramm_cap_obj_args_match(ObjectAt(chain, id).ty,
                                                        cap_obj_args)
                 IN  IF r.res = "ok"
                       THEN /\ admin_cap_obj_arg' = r.val[1]
                            /\ new_asset_cap_obj_arg' = r.val[2]
                            /\ Goto("aggr")
                       ELSE /\ Finish(r.res, r.val)
                            /\ UNCHANGED <<admin_cap_obj_arg, new_asset_cap_obj_arg>>
    /\ UNCHANGED input
    /\ UNCHANGED <<cfg, chain, client_address, ramm_package_id, ramm_obj_arg,
                   cap_obj_args, aggr_objs, aggr_obj_args, coin, gas_price,
                   ptb_tx, txs, ptb_status>>

(***************************************************************************)
(* build_aggr_obj_args: one batched read for all aggregators.              *)
(***************************************************************************)
\* Variant of AggrIssue that requests the aggregators in reverse asset order.
AggrIssueReversed ==
    /\ pc = "aggr"
    /\ Issue("aggr_multi_get",
             [i \in 1..Len(cfg.assets) |->
                 aggr_ids_of(cfg)[Len(cfg.assets) + 1 - i]])
    /\ Goto("await_aggr")
    /\ UNCHANGED input
    /\ UNCHANGED <<cfg, chain, locals, txs, ptb_status>>

AggrIssue ==
    /\ pc = "aggr"
    /\ Issue("aggr_multi_get", aggr_ids_of(cfg))
    /\ Goto("await_aggr")
    /\ UNCHANGED input
    /\ UNCHANGED <<cfg, chain, locals, txs, ptb_status>>

AggrRespond ==
    /\ pc = "await_aggr"
    /\ \/ /\ RpcFails("AggregatorDataQueryError")
          /\ UNCHANGED <<aggr_objs, aggr_obj_args>>
       \/ \E answer \in AggrResponses(log[Len(log)].ids) :
             LET r == build_aggr_obj_args(answer, cfg)
             IN  /\ Complete("ok")
                 /\ aggr_objs' = answer
                 /\ IF r.res = "ok"
                      THEN aggr_obj_args' = r.val /\ Goto("coins")
                      ELSE Finish(r.res, r.val) /\ UNCHANGED aggr_obj_args
    /\ UNCHANGED input
    /\ UNCHANGED <<cfg, chain, client_address, ramm_package_id, ramm_obj_arg,
                   cap_obj_args, cap_obj_ty, admin_cap_obj_arg,
                   new_asset_cap_obj_arg, coin, gas_price, ptb_tx, txs, ptb_status>>

(***************************************************************************)
(* add_assets_and_init_ramm_runner: coin, gas price, PTB.                  *)
(***************************************************************************)
\* Variant of CoinsIssue that cuts the config down to its first asset.
CoinsIssueTrimsAssets ==
    /\ pc = "coins"
    /\ IssueFor("get_coins", <<>>, client_address)
    /\ Goto("await_coins")
    /\ cfg' = [cfg EXCEPT !.assets = SubSeq(@, 1, 1), !.asset_count = 1]
    /\ UNCHANGED input
    /\ UNCHANGED <<chain, locals, txs, ptb_status>>

\* get_coin_and_gas: get_coins(client_address)
CoinsIssue ==
    /\ pc = "coins"
    /\ IssueFor("get_coins", <<>>, client_address)
    /\ Goto("await_coins")
    /\ UNCHANGED input
    /\ UNCHANGED <<cfg, chain, locals, txs, ptb_status>>

\* Variant of CoinsRespond that goes on to the gas price after a failed coin
\* query.
CoinsRespondGoesOn ==
    /\ pc = "await_coins"
    /\ \/ /\ Complete("err")
          /\ Goto("gas_price")
          /\ UNCHANGED coin
       \/ /\ Complete("ok")
          /\ LET coins == CoinsOf(chain, client_address)
             IN  IF coins = <<>>
                  THEN /\ Finish("panic", "No coins associated to active address!")
                       /\ UNCHANGED coin
                  ELSE /\ coin' = coins[1]
                       /\ Goto("gas_price")
    /\ UNCHANGED input
    /\ UNCHANGED <<cfg, chain, client_address, ramm_package_id, ramm_obj_arg,
                   cap_obj_args, cap_obj_ty, admin_cap_obj_arg,
                   new_asset_cap_obj_arg, aggr_objs, aggr_obj_args, gas_price,
                   ptb_tx, txs, ptb_status>>

\* Variant of CoinsRespond that goes on to the gas price with no coin when
\* the address has none.
CoinsRespondWithoutCoin ==
    /\ pc = "await_coins"
    /\ \/ /\ RpcFails("CoinQueryError")
          /\ UNCHANGED coin
       \/ /\ Complete("ok")
          /\ LET coins == CoinsOf(chain, client_address)
             IN  IF coins = <<>>
                  THEN /\ Goto("gas_price")
                       /\ UNCHANGED coin
                  ELSE /\ coin' = coins[1]
                       /\ Goto("gas_price")
    /\ UNCHANGED input
    /\ UNCHANGED <<cfg, chain, client_address, ramm_package_id, ramm_obj_arg,
                   cap_obj_args, cap_obj_ty, admin_cap_obj_arg,
                   new_asset_cap_obj_arg, aggr_objs, aggr_obj_args, gas_price,
                   ptb_tx, txs, ptb_status>>

\* CoinsRespond, taking the first coin at the version it had before the run
\* instead of the version the node lists.
CoinsRespondCached ==
    /\ pc = "await_coins"
    /\ \/ /\ RpcFails("CoinQueryError")
          /\ UNCHANGED coin
       \/ /\ Complete("ok")
          /\ LET coins == CoinsOf(chain, client_address)
             IN  IF coins = <<>>
                  THEN /\ Finish("panic", "No coins associated to active address!")
                       /\ UNCHANGED coin
                  ELSE /\ coin' = ObjectRef(coins[1].object_id, 1)
                       /\ Goto("gas_price")
    /\ UNCHANGED input
    /\ UNCHANGED <<cfg, chain, client_address, ramm_package_id, ramm_obj_arg,
                   cap_obj_args, cap_obj_ty, admin_cap_obj_arg,
                   new_asset_cap_obj_arg, aggr_objs, aggr_obj_args, gas_price,
                   ptb_tx, txs, ptb_status>>

\* The node lists the coins of the address; the first of the list is taken,
\* as an object reference; expect() panics when there is none.
CoinsRespond ==
    /\ pc = "await_coins"
    /\ \/ /\ RpcFails("CoinQueryError")
          /\ UNCHANGED coin
       \/ /\ Complete("ok")
          /\ LET coins == CoinsOf(chain, client_address)
             IN  IF coins = <<>>
                  THEN /\ Finish("panic", "No coins associated to active address!")
                       /\ UNCHANGED coin
                  ELSE /\ coin' = coins[1]
                       /\ Goto("gas_price")
    /\ UNCHANGED input
    /\ UNCHANGED <<cfg, chain, client_address, ramm_package_id, ramm_obj_arg,
                   cap_obj_args, cap_obj_ty, admin_cap_obj_arg,
                   new_asset_cap_obj_arg, aggr_objs, aggr_obj_args, gas_price,
                   ptb_tx, txs, ptb_status>>

\* get_coin_and_gas: get_reference_gas_price()
GasPriceIssue ==
    /\ pc = "gas_price"
    /\ Issue("get_gas_price", <<>>)
    /\ Goto("await_gas_price")
    /\ UNCHANGED input
    /\ UNCHANGED <<cfg, chain, locals, txs, ptb_status>>

\* Variant of GasPriceRespond that asks for the gas price a second time when
\* the first query fails.
GasPriceRespondRetries ==
    /\ pc = "await_gas_price"
    /\ \/ /\ IF Len(SelectSeq(log, LAMBDA e : e.op = "get_gas_price")) < 2
               THEN Complete("err") /\ Goto("gas_price")
               ELSE RpcFails("GasPriceQueryError")
          /\ UNCHANGED <<gas_price, ptb_tx>>
       \/ \E price \in {1000} :
             LET r == add_assets_and_init_ramm(cfg, client_address, ramm_package_id,
                          ramm_obj_arg, admin_cap_obj_arg, new_asset_cap_obj_arg,
                          aggr_obj_args, coin, price)
             IN  /\ Complete("ok")
                 /\ gas_price' = price
                 /\ IF r.res = "ok"
                      THEN ptb_tx' = r.val /\ Goto("ptb_submit")
                      ELSE Finish(r.res, r.val) /\ UNCHANGED ptb_tx
    /\ UNCHANGED input
    /\ UNCHANGED <<cfg, chain, client_address, ramm_package_id, ramm_obj_arg,
                   cap_obj_args, cap_obj_ty, admin_cap_obj_arg,
                   new_asset_cap_obj_arg, aggr_objs, aggr_obj_args, coin, txs,
                   ptb_status>>

\* The gas price arrives; add_assets_and_init_ramm then builds the PTB
\* (local).
GasPriceRespond ==
    /\ pc = "await_gas_price"
    /\ \/ /\ RpcFails("GasPriceQueryError")
          /\ UNCHANGED <<gas_price, ptb_tx>>
       \/ \E price \in {1000} :
             LET r == add_assets_and_init_ramm(cfg, client_address, ramm_package_id,
                          ramm_obj_arg, admin_cap_obj_arg, new_asset_cap_obj_arg,
                          aggr_obj_args, coin, price)
             IN  /\ Complete("ok")
                 /\ gas_price' = price
                 /\ IF r.res = "ok"
                      THEN ptb_tx' = r.val /\ Goto("ptb_submit")
                      ELSE Finish(r.res, r.val) /\ UNCHANGED ptb_tx
    /\ UNCHANGED input
    /\ UNCHANGED <<cfg, chain, client_address, ramm_package_id, ramm_obj_arg,
                   cap_obj_args, cap_obj_ty, admin_cap_obj_arg,
                   new_asset_cap_obj_arg, aggr_objs, aggr_obj_args, coin, txs,
                   ptb_status>>

\* Variant of PtbSubmitIssue that signs with the key of another address of
\* the keystore.
PtbSubmitIssueOtherSigner ==
    /\ pc = "ptb_submit"
    /\ sign_and_execute_tx("ptb_submit", ptb_tx, OtherAddress, "await_ptb_submit")
    /\ UNCHANGED input
    /\ UNCHANGED <<cfg, chain, locals, ptb_status>>

\* add_assets_and_init_ramm_runner: the PTB is signed and submitted.
PtbSubmitIssue ==
    /\ pc = "ptb_submit"
    /\ sign_and_execute_tx("ptb_submit", ptb_tx, client_address, "await_ptb_submit")
    /\ UNCHANGED input
    /\ UNCHANGED <<cfg, chain, locals, ptb_status>>

\* Variant of PtbSubmitRespond that removes the objects of the creation
\* transaction from the ledger when the submission fails.
PtbSubmitRespondCleansUp ==
    /\ pc = "await_ptb_submit"
    /\ \/ /\ RpcFails("TxBlockExecutionError")
          /\ chain' = { o \in chain : o.creator # "create" }
          /\ UNCHANGED ptb_status
       \/ \E abort_at \in 0..Len(txs[Len(txs)].pt.commands) :
             LET r == ExecutePtb(chain, txs[Len(txs)], abort_at)
                 gas == txs[Len(txs)].gas_payment
             IN  /\ Spendable(chain, gas, txs[Len(txs)].sender)
                 /\ Complete("ok")
                 /\ chain' = ChargeGas(r.chain, gas, "ptb")
                 /\ ptb_status' = r.status
                 /\ Finish("ok", "")
    /\ UNCHANGED input
    /\ UNCHANGED <<cfg, locals, txs>>

\* Variant of PtbSubmitRespond that takes the answer and keeps waiting.
PtbSubmitRespondKeepsWaiting ==
    /\ pc = "await_ptb_submit"
    /\ Complete("ok")
    /\ UNCHANGED input
    /\ UNCHANGED <<cfg, pc, outcome, err, chain, locals, txs, ptb_status>>

\* The node answers the PTB.  A transaction whose gas coin is not at the
\* referenced version is refused; otherwise the ledger ran it, to success or
\* to an abort, and charged the gas; ramm_deployment logs the status and
\* returns Ok either way.
PtbSubmitRespond ==
    /\ pc = "await_ptb_submit"
    /\ \/ /\ RpcFails("TxBlockExecutionError")
          /\ UNCHANGED <<chain, ptb_status>>
       \/ \E abort_at \in 0..Len(txs[Len(txs)].pt.commands) :
             LET r == ExecutePtb(chain, txs[Len(txs)], abort_at)
                 gas == txs[Len(txs)].gas_payment
             IN  /\ Spendable(chain, gas, txs[Len(txs)].sender)
                 /\ Complete("ok")
                 /\ chain' = ChargeGas(r.chain, gas, "ptb")
                 /\ ptb_status' = r.status
                 /\ Finish("ok", "")
    /\ UNCHANGED input
    /\ UNCHANGED <<cfg, locals, txs>>

Next ==
    \/ ParseCfg
    \/ BuildClientIssue
    \/ BuildClientRespond
    \/ ResolvePkgFromToml
    \/ PublishBuildIssue
    \/ PublishBuildRespond
    \/ PublishSubmitIssue
    \/ PublishSubmitRespond
    \/ CreateBuildIssue
    \/ CreateBuildRespond
    \/ CreateSubmitIssue
    \/ CreateSubmitRespond
    \/ CapQueryIssue
    \/ CapQueryRespond
    \/ AggrIssue
    \/ AggrRespond
    \/ CoinsIssue
    \/ CoinsRespond
    \/ GasPriceIssue
    \/ GasPriceRespond
    \/ PtbSubmitIssue
    \/ PtbSubmitRespond

Spec == Init /\ [][Next]_vars

(***************************************************************************)
(* Properties.                                                             *)
(***************************************************************************)
IsPublishBranch == cfg.ramm_pkg_addr_or_path.tag = "FromPkgPublication"

\* the network calls of a complete run, in the order of ramm_deployment
CallOrder ==
    <<"build_client">>
    \o (IF IsPublishBranch THEN <<"publish_build", "publish_submit">> ELSE <<>>)
    \o <<"create_build", "create_submit", "cap_type_query", "aggr_multi_get",
         "get_coins", "get_gas_price", "ptb_submit">>

Issued(op) == \E i \in 1..Len(log) : log[i].op = op
Answered(op) == \E i \in 1..Len(log) : log[i].op = op /\ log[i].st = "ok"
Failed == pc = "done" /\ outcome \in {"err", "panic"}

\* created objects of the creation transaction, by ownership
CreatedBy(by) == { o \in chain : o.creator = by }
CallerOwned == { o \in CreatedBy("create") : OwnerIs(o.owner, client_address) }
SharedCreated == { o \in CreatedBy("create") : o.owner.kind = "Shared" }
ImmutablePublished == { o \in CreatedBy("publish") : o.owner.kind = "Immutable" }

\* C1: the network calls of a run are issued in the one order of the
\* pipeline (the publish calls only in the publish branch), a call is issued
\* only after every earlier call completed successfully, and at most one call
\* is outstanding at any time.
C1_SequentialCalls ==
    /\ Len(log) <= Len(CallOrder)
    /\ \A i \in 1..Len(log) : log[i].op = CallOrder[i]
    /\ \A i \in 1..Len(log) : i < Len(log) => log[i].st = "ok"
    /\ Cardinality({ i \in 1..Len(log) : log[i].st = "pending" }) <= 1

\* a complete run of the publish branch
C1_Witness ==
    /\ IsPublishBranch
    /\ outcome = "ok"
    /\ Len(log) = Len(CallOrder)
    /\ \A i \in 1..Len(log) : log[i].st = "ok"

AssetTypes(c) == [i \in 1..Len(c.assets) |-> c.assets[i].asset_type]

\* C2: every RAMM on the ledger either has no asset and is inactive, or has
\* all configured assets and is active, in every state of every run.
C2_PtbAtomic ==
    \A o \in chain :
        o.ty = "RAMM" =>
            \/ o.assets = <<>> /\ ~o.active
            \/ o.assets = AssetTypes(cfg) /\ o.active

\* the PTB ran to success on a RAMM with two configured assets
C2_Witness ==
    /\ ptb_status = "success"
    /\ Len(cfg.assets) = 2
    /\ \E o \in chain : o.ty = "RAMM" /\ o.active /\ Len(o.assets) = 2

PtbBuilt == ptb_tx # NoTx

\* the CallArg an argument of the PTB refers to
PtbInput(a) == ptb_tx.pt.inputs[a + 1]

\* C3: the PTB holds exactly N add-asset calls followed by one activation
\* call, its last command, whose arguments are the three input slots of the
\* RAMM, the admin capability and the new-asset capability, in that order.
C3_PtbShape ==
    PtbBuilt =>
        LET cmds == ptb_tx.pt.commands
            n == Len(cfg.assets)
        IN  /\ Len(cmds) = n + 1
            /\ \A i \in 1..n : cmds[i].function = "add_asset_to_ramm"
            /\ cmds[n + 1].function = "initialize_ramm"
            /\ cmds[n + 1].type_arguments = <<>>
            /\ cmds[n + 1].arguments = <<0, 1, 2>>
            /\ PtbInput(0) = ObjectCallArg(ramm_obj_arg)
            /\ PtbInput(1) = ObjectCallArg(admin_cap_obj_arg)
            /\ PtbInput(2) = ObjectCallArg(new_asset_cap_obj_arg)

\* a PTB built for two assets
C3_Witness ==
    /\ PtbBuilt
    /\ Len(cfg.assets) = 2
    /\ Len(ptb_tx.pt.commands) = 3

\* C4: the i-th add-asset call has asset i's type as its only type argument
\* and the arguments (RAMM, aggregator i, minimum trade amount i, decimal
\* places i, admin capability, new-asset capability); the RAMM and the two
\* capabilities are the same three inputs, registered once, in every call.
C4_AddAssetCalls ==
    PtbBuilt =>
        LET cmds == ptb_tx.pt.commands
            inputs == ptb_tx.pt.inputs
        IN  /\ \A i \in 1..Len(cfg.assets) :
                  LET a == cmds[i].arguments
                      asset == cfg.assets[i]
                  IN  /\ cmds[i].type_arguments = <<asset.asset_type>>
                      /\ Len(a) = 6
                      /\ a[1] = 0 /\ a[5] = 1 /\ a[6] = 2
                      /\ PtbInput(a[2]) = ObjectCallArg(aggr_obj_args[i])
                      /\ PtbInput(a[2]).obj.id = asset.aggregator_address
                      /\ PtbInput(a[3]) = PureCallArg("u64", asset.minimum_trade_amount)
                      /\ PtbInput(a[4]) = PureCallArg("u8", asset.decimal_places)
            /\ PtbInput(0) = ObjectCallArg(ramm_obj_arg)
            /\ PtbInput(1) = ObjectCallArg(admin_cap_obj_arg)
            /\ PtbInput(2) = ObjectCallArg(new_asset_cap_obj_arg)
            /\ \A oa \in {ramm_obj_arg, admin_cap_obj_arg, new_asset_cap_obj_arg} :
                  Cardinality({ j \in 1..Len(inputs) : inputs[j].obj.id = oa.id }) = 1

\* a PTB whose second add-asset call is that of the second asset
C4_Witness ==
    /\ PtbBuilt
    /\ Len(cfg.assets) = 2
    /\ ptb_tx.pt.commands[2].type_arguments = <<cfg.assets[2].asset_type>>
    /\ PtbInput(ptb_tx.pt.commands[2].arguments[2]).obj.id
         = cfg.assets[2].aggregator_address

\* C5: with two caller-owned created objects [o0, o1], a type query on o0
\* that returns the admin capability's name gives (admin = o0, new-asset =
\* o1), one that returns the new-asset capability's name gives (admin = o1,
\* new-asset = o0), and any other name ends the run in failure with no pair.
C5_Disambiguation ==
    cap_obj_ty # "" =>
        /\ Len(cap_obj_args) = 2
        /\ cap_obj_ty = "RAMMAdminCap" =>
              /\ admin_cap_obj_arg = cap_obj_args[1]
              /\ new_asset_cap_obj_arg = cap_obj_args[2]
        /\ cap_obj_ty = "RAMMNewAssetCap" =>
              /\ admin_cap_obj_arg = cap_obj_args[2]
              /\ new_asset_cap_obj_arg = cap_obj_args[1]
        /\ cap_obj_ty \notin {"RAMMAdminCap", "RAMMNewAssetCap"} =>
              /\ Failed
              /\ admin_cap_obj_arg = NoObjArg
              /\ new_asset_cap_obj_arg = NoObjArg

\* the query returned the new-asset capability's name for o0
C5_Witness ==
    /\ cap_obj_ty = "RAMMNewAssetCap"
    /\ Cardinality(SharedCreated) = 1
    /\ admin_cap_obj_arg = cap_obj_args[2]
    /\ new_asset_cap_obj_arg = cap_obj_args[1]

\* the creation emitted one admin and one new-asset capability to the caller
OneOfEachCap ==
    /\ Cardinality(CallerOwned) = 2
    /\ Cardinality({ o \in CallerOwned : o.ty = "RAMMAdminCap" }) = 1
    /\ Cardinality({ o \in CallerOwned : o.ty = "RAMMNewAssetCap" }) = 1

Disambiguated == admin_cap_obj_arg # NoObjArg

\* C6: if the creation emitted exactly one admin and one new-asset
\* capability to the caller, the object tagged admin has the admin type
\* on-chain and the object tagged new-asset the new-asset type, the two are
\* distinct, and they are exactly the caller-owned created objects.
C6_TagsMatchTypes ==
    (OneOfEachCap /\ cap_obj_ty # "") =>
        /\ Disambiguated
        /\ ObjectAt(chain, admin_cap_obj_arg.id).ty = "RAMMAdminCap"
        /\ ObjectAt(chain, new_asset_cap_obj_arg.id).ty = "RAMMNewAssetCap"
        /\ admin_cap_obj_arg.id # new_asset_cap_obj_arg.id
        /\ {admin_cap_obj_arg.id, new_asset_cap_obj_arg.id}
             = { o.id : o \in CallerOwned }
        /\ admin_cap_obj_arg.kind = "ImmOrOwnedObject"
        /\ new_asset_cap_obj_arg.kind = "ImmOrOwnedObject"

\* the new-asset capability came first in the response
C6_Witness ==
    /\ OneOfEachCap
    /\ Disambiguated
    /\ ObjectAt(chain, cap_obj_args[1].id).ty = "RAMMNewAssetCap"
    /\ admin_cap_obj_arg = cap_obj_args[2]

\* C7: if the creation result does not hold exactly two objects owned by the
\* caller, the run fails before the type query: no type query, batched read
\* or PTB is issued.
C7_NotTwoOwned ==
    (Answered("create_submit") /\ Cardinality(CallerOwned) # 2) =>
        /\ Failed
        /\ ~Issued("cap_type_query")
        /\ ~Issued("aggr_multi_get")
        /\ ~Issued("ptb_submit")

\* one shared object and three caller-owned ones: the count assertion fails
C7_Witness ==
    /\ Answered("create_submit")
    /\ Cardinality(SharedCreated) = 1
    /\ Cardinality(CallerOwned) = 3
    /\ outcome = "panic"
    /\ err = "assert cap_obj_args.len() == 2"

\* C8: if the creation result does not hold exactly one shared object, the
\* run fails and no type query, batched read or PTB is issued.
C8_NotOneShared ==
    (Answered("create_submit") /\ Cardinality(SharedCreated) # 1) =>
        /\ Failed
        /\ ~Issued("cap_type_query")
        /\ ~Issued("aggr_multi_get")
        /\ ~Issued("ptb_submit")

\* C9: in the publish branch, a publish result with exactly one immutable
\* created object gives that object's id as the package id; with none, or
\* with two or more, the run fails and no creation transaction is submitted.
C9_PackageResolver ==
    (IsPublishBranch /\ Answered("publish_submit")) =>
        IF Cardinality(ImmutablePublished) = 1
          THEN \A o \in ImmutablePublished : ramm_package_id = o.id
          ELSE Failed /\ ~Issued("create_build") /\ ~Issued("create_submit")

AllShared(objs) == \A i \in 1..Len(objs) : objs[i].found /\ objs[i].owner.kind = "Shared"

\* C10: when the batched read returns N shared objects for N assets, the
\* resolver returns N references, the i-th with the id of asset i's
\* aggregator address; when one of the objects is not shared, the run fails
\* and no list, not even a partial one, is returned.
C10_AggregatorResolver ==
    Answered("aggr_multi_get") =>
        IF Len(aggr_objs) = Len(cfg.assets) /\ AllShared(aggr_objs)
          THEN /\ Len(aggr_obj_args) = Len(cfg.assets)
               /\ \A i \in 1..Len(cfg.assets) :
                     /\ aggr_obj_args[i].id = cfg.assets[i].aggregator_address
                     /\ aggr_obj_args[i].kind = "SharedObject"
                     /\ aggr_obj_args[i].version = aggr_objs[i].owner.initial_shared_version
          ELSE Failed /\ aggr_obj_args = <<>>

\* two assets, two shared aggregators, two references
C10_Witness ==
    /\ Answered("aggr_multi_get")
    /\ Len(cfg.assets) = 2
    /\ AllShared(aggr_objs)
    /\ Len(aggr_obj_args) = 2
    /\ aggr_obj_args[2].id = cfg.assets[2].aggregator_address

\* C11: if an aggregator of the batched read's answer has an owner other
\* than Shared, the run fails at the aggregator resolver: no PTB is built,
\* no coin or gas-price query is issued, and no PTB is submitted.
C11_NonSharedOracleStops ==
    (/\ Answered("aggr_multi_get")
     /\ \E i \in 1..Len(aggr_objs) :
           /\ aggr_objs[i].found
           /\ aggr_objs[i].owner.kind \notin {"Shared", "None"}) =>
        /\ Failed
        /\ aggr_obj_args = <<>>
        /\ ptb_tx = NoTx
        /\ ~Issued("get_coins")
        /\ ~Issued("get_gas_price")
        /\ ~Issued("ptb_submit")
        /\ \A i \in 1..Len(txs) : \A j \in 1..Len(txs[i].pt.commands) :
              txs[i].pt.commands[j].function \notin {"add_asset_to_ramm", "initialize_ramm"}

\* two assets, the first aggregator shared, the second owned by an address
C11_Witness ==
    /\ Answered("aggr_multi_get")
    /\ Len(aggr_objs) = 2
    /\ aggr_objs[1].owner.kind = "Shared"
    /\ aggr_objs[2].found /\ aggr_objs[2].owner.kind = "AddressOwner"
    /\ outcome = "panic"
    /\ err = "Owner of Aggregator object must be Shared"

\* C12: the run returns Ok (main prints success) only if the ledger
\* executed the PTB to success.
C12_SuccessOnlyIfExecuted ==
    outcome = "ok" => ptb_status = "success"

\* C13: a step whose network call fails, or that fails locally, ends the
\* run in the terminal failure state in that same step, issuing no call; and
\* from the failure state no step is taken: no later call is ever issued.
C13_FailFast ==
    [][ /\ ~Failed
        /\ (Len(log') > 0 /\ log'[Len(log')].st = "err") => Failed'
        /\ Failed' => /\ Len(log') = Len(log)
                      /\ txs' = txs
                      /\ \A i \in 1..Len(log') : log'[i].st # "pending" ]_vars

\* the creation transaction's submission failed after two successful calls
C13_Witness ==
    /\ Failed
    /\ err = "TxBlockExecutionError"
    /\ Len(log) = 3
    /\ log[3].op = "create_submit"
    /\ log[3].st = "err"

\* functions a transaction of the pipeline may call
PipelineCalls == {"publish", "new_ramm", "add_asset_to_ramm", "initialize_ramm"}

\* C14: no step removes an object from the ledger or changes its owner; the
\* only transactions ever submitted are the publication, the creation and
\* the PTB; the step that fails submits nothing; and when the run has failed
\* every RAMM on the ledger is inactive.
C14_NoCleanup ==
    [][ /\ \A o \in chain : \E p \in chain' :
              p.id = o.id /\ p.ty = o.ty /\ p.owner = o.owner
        /\ Len(txs') <= 3
        /\ \A i \in 1..Len(txs') : \A j \in 1..Len(txs'[i].pt.commands) :
              txs'[i].pt.commands[j].function \in PipelineCalls
        /\ Failed' => /\ txs' = txs
                      /\ \A o \in chain' : o.ty = "RAMM" => ~o.active ]_vars

\* the run failed at the batched read, after a publication and a creation
\* whose objects are all still on the ledger
C14_Witness ==
    /\ Failed
    /\ err = "AggregatorDataQueryError"
    /\ IsPublishBranch
    /\ \E o \in chain : o.ty = "Package"
    /\ \E o \in chain : o.ty = "RAMM" /\ ~o.active
    /\ Cardinality(CallerOwned) = 2

\* C15: a violation of a protocol invariant (the immutable objects of the
\* publication are not one, the shared objects of the creation are not one
\* or the caller's are not two, the capability's type name is unknown, an
\* aggregator has an owner other than Shared) never ends the run by a panic
\* or a failed assertion.
C15_ViolationsAreErrors ==
    (\/ IsPublishBranch /\ Answered("publish_submit")
           /\ Cardinality(ImmutablePublished) # 1
     \/ Answered("create_submit")
           /\ (Cardinality(SharedCreated) # 1 \/ Cardinality(CallerOwned) # 2)
     \/ cap_obj_ty \notin {"", "RAMMAdminCap", "RAMMNewAssetCap"}
     \/ /\ Answered("aggr_multi_get")
        /\ \E i \in 1..Len(aggr_objs) :
              /\ aggr_objs[i].found
              /\ aggr_objs[i].owner.kind \notin {"Shared", "None"})
        => outcome # "panic"

(***************************************************************************)
(* Validation alone: parse_ramm_cfg applied to configs whose asset lists   *)
(* are as long as the range of asset_count (u8) and longer.                *)
(***************************************************************************)
\* lengths of the asset lists
ValidateLens == {0, 1, 2, 3, 255, 256, 257, 258}

\* decimal places around the threshold
ValidateDecimals == {ASSET_MIN_DECIMAL_PLACES - 1, ASSET_MIN_DECIMAL_PLACES}

\* the first n assets, well-formed but for the k-th, which has d decimal
\* places (k = 0: all well-formed)
ValidateAssets ==
    { [i \in 1..n |-> AssetConfig(i, IF i = k THEN d ELSE GoodDecimals(i))] :
        n \in ValidateLens, k \in {0, 1, 2}, d \in ValidateDecimals }

ValidateConfigs ==
    [target_env : {"active", "testnet", "mainnet", "devnet", "localnet", ""},
     ramm_pkg_addr_or_path : {FromTomlConfig(<<"cfgpkg", 1>>)},
     asset_count : {0, 1, 2, 3, 255},
     fee_collection_address : {"fee"},
     assets : ValidateAssets]

InitValidate ==
    /\ cfg \in ValidateConfigs
    /\ pc = "parse"
    /\ outcome = "running"
    /\ err = ""
    /\ log = <<>>
    /\ chain = AccountCoins
    /\ client_address = ""
    /\ ramm_package_id = NoId
    /\ ramm_obj_arg = NoObjArg
    /\ cap_obj_args = <<>>
    /\ cap_obj_ty = ""
    /\ admin_cap_obj_arg = NoObjArg
    /\ new_asset_cap_obj_arg = NoObjArg
    /\ aggr_objs = <<>>
    /\ aggr_obj_args = <<>>
    /\ coin = NoCoin
    /\ gas_price = 0
    /\ ptb_tx = NoTx
    /\ txs = <<>>
    /\ ptb_status = ""
    /\ input = ""

SpecValidate == InitValidate /\ [][ParseCfg]_vars

\* C16: parse_ramm_cfg accepts a config if and only if asset_count equals
\* the length of the asset list, asset_count is positive, the target
\* environment is active, testnet or mainnet, and every asset has at least
\* ASSET_MIN_DECIMAL_PLACES decimal places.
C16_ValidateIff ==
    pc # "parse" =>
        ( (pc = "client" /\ outcome = "running")
          <=> /\ cfg.asset_count = Len(cfg.assets)
              /\ cfg.asset_count > 0
              /\ cfg.target_env \in {"active", "testnet", "mainnet"}
              /\ \A i \in 1..Len(cfg.assets) :
                    cfg.assets[i].decimal_places >= ASSET_MIN_DECIMAL_PLACES )

\* C17: a config that fails validation is rejected by the first step, with
\* InvalidConfigData: no client is built, no call is issued, no transaction
\* is built or submitted, and the ledger is untouched.
C17_InvalidConfigNoIO ==
    (~validate_ramm_cfg(cfg) /\ pc # "parse") =>
        /\ Failed
        /\ outcome = "err"
        /\ err = "InvalidConfigData"
        /\ log = <<>>
        /\ txs = <<>>
        /\ ptb_tx = NoTx
        /\ chain = AccountCoins
        /\ client_address = ""

\* a config rejected for one asset with too few decimal places
C17_Witness ==
    /\ Failed
    /\ err = "InvalidConfigData"
    /\ cfg.asset_count = Len(cfg.assets)
    /\ cfg.asset_count = 2
    /\ cfg.target_env = "testnet"
    /\ cfg.assets[2].decimal_places < ASSET_MIN_DECIMAL_PLACES
    /\ log = <<>>

\* C18: in the reuse branch neither publish call is ever issued, no publish
\* transaction is submitted, and from package resolution on the package id
\* is the configured one, which the creation transaction calls.
C18_ReuseBranch ==
    cfg.ramm_pkg_addr_or_path.tag = "FromTomlConfig" =>
        /\ ~Issued("publish_build")
        /\ ~Issued("publish_submit")
        /\ \A i \in 1..Len(txs) : txs[i] # publish_tx(client_address)
        /\ ramm_package_id \in {NoId, cfg.ramm_pkg_addr_or_path.addr}
        /\ Issued("create_build") =>
              ramm_package_id = cfg.ramm_pkg_addr_or_path.addr
        /\ Issued("create_submit") =>
              txs[1].pt.commands[1].package = cfg.ramm_pkg_addr_or_path.addr

\* the creation transaction was submitted with the configured package id
C18_Witness ==
    /\ cfg.ramm_pkg_addr_or_path.tag = "FromTomlConfig"
    /\ Answered("create_submit")
    /\ ramm_package_id = cfg.ramm_pkg_addr_or_path.addr
    /\ Len(log) >= 3
    /\ log[2].op = "create_build"

\* positions of the type queries in the log
TypeQueries == { i \in 1..Len(log) : log[i].op = "cap_type_query" }

\* C19: a run issues at most one type query; it names exactly one object,
\* the first of the two caller-owned created objects; no call of the run
\* names the second; and once answered with a capability's name, both roles
\* are assigned.
C19_SingleTypeQuery ==
    /\ Cardinality(TypeQueries) <= 1
    /\ \A i \in TypeQueries :
          /\ Len(cap_obj_args) = 2
          /\ log[i].ids = <<cap_obj_args[1].id>>
          /\ cap_obj_args[1].id # cap_obj_args[2].id
          /\ \A j \in 1..Len(log) : \A k \in 1..Len(log[j].ids) :
                log[j].ids[k] # cap_obj_args[2].id
          /\ (log[i].st = "ok" /\ cap_obj_ty \in {"RAMMAdminCap", "RAMMNewAssetCap"}) =>
                /\ {admin_cap_obj_arg, new_asset_cap_obj_arg}
                      = {cap_obj_args[1], cap_obj_args[2]}
                /\ admin_cap_obj_arg # new_asset_cap_obj_arg

\* a complete run: one query, on the first object, whose type was the
\* new-asset capability's
C19_Witness ==
    /\ outcome = "ok"
    /\ Cardinality(TypeQueries) = 1
    /\ cap_obj_ty = "RAMMNewAssetCap"
    /\ new_asset_cap_obj_arg = cap_obj_args[1]
    /\ admin_cap_obj_arg = cap_obj_args[2]

\* the type query failed: the call returned an error, or its answer held no
\* object
TypeQueryFailed ==
    \E i \in TypeQueries :
        \/ log[i].st = "err"
        \/ log[i].st = "ok" /\ cap_obj_ty = ""

\* C20: if the type query fails the run has failed, the query was issued
\* once, no role is assigned, and neither the batched read, the coin and gas
\* queries nor the PTB is issued.
C20_TypeQueryFailure ==
    TypeQueryFailed =>
        /\ Failed
        /\ Cardinality(TypeQueries) = 1
        /\ log[Len(log)].op = "cap_type_query"
        /\ admin_cap_obj_arg = NoObjArg
        /\ new_asset_cap_obj_arg = NoObjArg
        /\ ~Issued("aggr_multi_get")
        /\ ~Issued("get_coins")
        /\ ~Issued("ptb_submit")
        /\ ptb_tx = NoTx

\* the query returned an error after a creation with one shared and two
\* caller-owned objects
C20_Witness ==
    /\ Failed
    /\ outcome = "err"
    /\ err = "CapObjectQueryError"
    /\ log[Len(log)].op = "cap_type_query"
    /\ log[Len(log)].st = "err"
    /\ Cardinality(CallerOwned) = 2

\* C21: the coin query is issued only after the publication (publish
\* branch), the creation, the type query and the batched read were answered;
\* the only calls after it are the gas-price query and the PTB submission,
\* in that order, and no transaction but the PTB is submitted after it; the
\* PTB pays with the coin and at the gas price these two queries returned.
C21_GasContextLast ==
    /\ \A i \in 1..Len(log) :
          log[i].op = "get_coins" =>
              /\ IsPublishBranch => Answered("publish_submit")
              /\ Answered("create_submit")
              /\ Answered("cap_type_query")
              /\ Answered("aggr_multi_get")
              /\ Len(log) <= i + 2
              /\ i + 1 <= Len(log) => log[i + 1].op = "get_gas_price"
              /\ i + 2 <= Len(log) => log[i + 2].op = "ptb_submit"
              /\ Len(txs) = (IF IsPublishBranch THEN 2 ELSE 1)
                              + (IF Issued("ptb_submit") THEN 1 ELSE 0)
    /\ PtbBuilt =>
          /\ Answered("get_coins")
          /\ Answered("get_gas_price")
          /\ coin # NoCoin
          /\ ptb_tx.gas_payment = coin
          /\ ptb_tx.gas_price = gas_price
    /\ Issued("ptb_submit") => txs[Len(txs)] = ptb_tx

\* the PTB was submitted with the fetched coin and gas price
C21_Witness ==
    /\ Issued("ptb_submit")
    /\ IsPublishBranch
    /\ Len(txs) = 3
    /\ txs[3].gas_payment = coin
    /\ coin # NoCoin
    /\ txs[3].gas_price = gas_price
    /\ gas_price > 0

\* The ids ramm_deployment returns on success: those of the RAMM, the admin
\* capability and the new-asset capability, taken from their ObjectArgs.
ramm_obj_ids ==
    [ramm_id |-> ramm_obj_arg.id,
     admin_cap_id |-> admin_cap_obj_arg.id,
     new_asset_cap_id |-> new_asset_cap_obj_arg.id]

\* C22: when the run returns Ok, the three returned ids are those of the
\* first three inputs of the submitted PTB, in the order RAMM, admin
\* capability, new-asset capability; the first is the one shared object the
\* creation transaction created, and the creation created no other shared
\* object; it is referenced at the initial shared version that transaction
\* reported; and the other two are exactly the caller-owned objects it
\* created.
C22_ReportedIds ==
    outcome = "ok" =>
        LET inputs == txs[Len(txs)].pt.inputs
        IN  /\ Len(inputs) >= 3
            /\ ramm_obj_ids.ramm_id = inputs[1].obj.id
            /\ ramm_obj_ids.admin_cap_id = inputs[2].obj.id
            /\ ramm_obj_ids.new_asset_cap_id = inputs[3].obj.id
            /\ { o.id : o \in SharedCreated } = {inputs[1].obj.id}
            /\ \A o \in SharedCreated :
                  inputs[1].obj = SharedObject(o.id, o.owner.initial_shared_version, TRUE)
            /\ {inputs[2].obj.id, inputs[3].obj.id} = { o.id : o \in CallerOwned }
            /\ inputs[2].obj.id # inputs[3].obj.id

(***************************************************************************)
(* Runs in which every step that can be taken is eventually taken: the     *)
(* local code runs on, and every awaited call is eventually answered.      *)
(***************************************************************************)
SpecLive == Init /\ [][Next]_vars /\ WF_vars(Next)

\* a call is awaited
CallPending == Len(log) > 0 /\ log[Len(log)].st = "pending"

\* C23: when every call is answered the run ends, with exactly one of Ok, a
\* returned error or a panic; and while a call is awaited the only step of
\* the run is the answer to that call: no call is issued and no transaction
\* submitted until it arrives.
C23_Termination ==
    /\ <>(pc = "done")
    /\ [](pc = "done" <=> outcome \in {"ok", "err", "panic"})
    /\ [](pc # "done" <=> outcome = "running")
    /\ [][ CallPending => /\ Len(log') = Len(log)
                          /\ log'[Len(log)].st # "pending"
                          /\ txs' = txs ]_vars

\* a run that ended after all ten calls were answered
C23_Witness ==
    /\ pc = "done"
    /\ Len(log) = 10
    /\ ~CallPending
    /\ \A i \in 1..Len(log) : log[i].st = "ok"
    /\ outcome = "ok"
    /\ ptb_status = "failure"

(***************************************************************************)
(* A second holder of the account.  The pipeline reads the coin with       *)
(* get_coins and later submits its reference; it holds nothing on the      *)
(* ledger in between, so whoever else signs for the active address can     *)
(* spend the coin at any moment of the run.                                *)
(***************************************************************************)
\* the coin the other actor's transaction pays out
OtherPayment == ChainObject(<<"payment", 1>>, "GasCoin", AddressOwner(OtherAddress), 1, "other")

\* Another actor spends one of the active address's coins, once: the coin is
\* written, so its version moves on, and it either stays with the address
\* (part of it was paid out) or goes to the payee whole.
OtherActorSpends ==
    /\ pc # "done"
    /\ OtherPayment \notin chain
    /\ \E i \in 1..Len(CoinsOf(chain, ActiveAddress)) : \E whole \in BOOLEAN :
          LET ref == CoinsOf(chain, ActiveAddress)[i]
          IN  chain' = { IF o.id = ref.object_id /\ whole
                           THEN [o EXCEPT !.owner = AddressOwner(OtherAddress)]
                           ELSE o : o \in ChargeGas(chain, ref, "other") }
                       \cup {OtherPayment}
    /\ UNCHANGED input
    /\ UNCHANGED <<cfg, pc, outcome, err, log, locals, txs, ptb_status>>

NextConcurrent == Next \/ OtherActorSpends

SpecConcurrent == Init /\ [][NextConcurrent]_vars

\* no other actor has spent a coin of the active address during the run
SingleWriter == OtherPayment \notin chain

\* C24: when the batched transaction is submitted its gas payment is the
\* reference the coin query returned; if no other actor spent the account's
\* coins during the run, that reference names a coin the sender owns at its
\* current version; the reference is stale at submit only when another actor
\* wrote the coin after the query; and the pipeline never refreshes or
\* guards the reference once it has it.
C24_GasCoinCurrent ==
    /\ [](pc = "await_ptb_submit" =>
            LET gas == txs[Len(txs)].gas_payment
            IN  /\ gas = coin
                /\ coin # NoCoin
                /\ SingleWriter => Spendable(chain, coin, client_address)
                /\ ~Spendable(chain, coin, client_address) =>
                      /\ ObjectAt(chain, coin.object_id).previous_transaction = "other"
                      /\ ObjectAt(chain, coin.object_id).version = coin.version + 1)
    /\ [][coin # NoCoin => coin' = coin]_vars

\* the batched transaction is in flight with a gas reference that another
\* actor's spend made stale after the coin query
C24_Witness ==
    /\ pc = "await_ptb_submit"
    /\ ~SingleWriter
    /\ txs[Len(txs)].gas_payment = coin
    /\ ~Spendable(chain, coin, client_address)
    /\ coin.version = 3

\* C25: every config whose asset list length differs from asset_count is
\* rejected by validation, whatever the length: the run ends with
\* InvalidConfigData and never goes on to build the client.
C25_LengthMismatchRejected ==
    (pc # "parse" /\ cfg.asset_count # Len(cfg.assets)) =>
        /\ pc = "done"
        /\ outcome = "err"
        /\ err = "InvalidConfigData"

\* the network operations of a run, by the name they are logged under
NetworkOps ==
    {"publish_submit", "create_submit", "cap_type_query", "aggr_multi_get",
     "get_coins", "get_gas_price", "ptb_submit"}

\* how many times the run has issued the operation
IssuedCount(op) == Cardinality({ i \in 1..Len(log) : log[i].op = op })

\* C26: each kind of network operation is issued at most once in a run, each
\* submit operation sends exactly one transaction, and a failed operation
\* is the last call of the run: nothing is issued after it, and the run is
\* over.
C26_NoRetry ==
    /\ \A op \in NetworkOps : IssuedCount(op) <= 1
    /\ Len(txs) = IssuedCount("publish_submit") + IssuedCount("create_submit")
                    + IssuedCount("ptb_submit")
    /\ \A i \in 1..Len(log) :
          log[i].st = "err" => /\ i = Len(log)
                               /\ pc = "done"
                               /\ outcome = "err"

\* the gas-price query failed after every earlier operation succeeded: the
\* run is over with that one failed query and no batched transaction
C26_Witness ==
    /\ pc = "done"
    /\ outcome = "err"
    /\ err = "GasPriceQueryError"
    /\ log[Len(log)].op = "get_gas_price"
    /\ log[Len(log)].st = "err"
    /\ IssuedCount("get_gas_price") = 1
    /\ IssuedCount("publish_submit") = 1
    /\ IssuedCount("ptb_submit") = 0
    /\ Len(txs) = 2

\* the calls of a transaction into the RAMM package (a publish transaction
\* has none)
PackageCalls(tx) ==
    { k \in 1..Len(tx.pt.commands) : tx.pt.commands[k].function # "publish" }

\* C27: the package id, once resolved, never changes; it is the configured
\* id in the reuse branch and the id of an immutable object created by the
\* publish transaction in the publish branch; and the creation call, every
\* add-asset call and the initialization call, of the transactions submitted
\* and of the batched transaction once built, all target it.
C27_OnePackageId ==
    /\ [][ramm_package_id # NoId => ramm_package_id' = ramm_package_id]_vars
    /\ [](ramm_package_id # NoId =>
            IF IsPublishBranch
              THEN \E o \in ImmutablePublished : o.id = ramm_package_id
              ELSE ramm_package_id = cfg.ramm_pkg_addr_or_path.addr)
    /\ [](\A i \in 1..Len(txs) : \A k \in PackageCalls(txs[i]) :
            /\ ramm_package_id # NoId
            /\ txs[i].pt.commands[k].package = ramm_package_id
            /\ txs[i].pt.commands[k].function
                  \in {"new_ramm", "add_asset_to_ramm", "initialize_ramm"})
    /\ [](\A k \in PackageCalls(ptb_tx) :
            ptb_tx.pt.commands[k].package = ramm_package_id)

\* publish branch: the creation transaction and the batched transaction, with
\* two add-asset calls and the initialization call, were submitted against
\* the published package
C27_Witness ==
    /\ IsPublishBranch
    /\ Len(txs) = 3
    /\ txs[2].pt.commands[1].function = "new_ramm"
    /\ txs[2].pt.commands[1].package = ramm_package_id
    /\ Len(txs[3].pt.commands) = 3
    /\ txs[3].pt.commands[1].function = "add_asset_to_ramm"
    /\ txs[3].pt.commands[3].function = "initialize_ramm"
    /\ \A k \in 1..3 : txs[3].pt.commands[k].package = ramm_package_id
    /\ ramm_package_id \in { o.id : o \in ImmutablePublished }

\* the submitted transactions that call the constructor ramm::new_ramm
CreationTxs ==
    { i \in 1..Len(txs) :
        \E k \in 1..Len(txs[i].pt.commands) :
            txs[i].pt.commands[k].function = "new_ramm" }

\* the submitted transactions that call initialize_ramm (the batched one)
BatchedTxs ==
    { i \in 1..Len(txs) :
        \E k \in 1..Len(txs[i].pt.commands) :
            txs[i].pt.commands[k].function = "initialize_ramm" }

\* C28 (as stated): every run that got past package resolution has
\* submitted exactly one creation transaction by the time it ends.
C28_ExactlyOneCreation ==
    (pc = "done" /\ ramm_package_id # NoId) => Cardinality(CreationTxs) = 1

\* C28 (amended): a run submits at most one creation transaction, and
\* exactly one once the creation transaction was built and signed; that
\* transaction is a single call of ramm::new_ramm in the resolved package,
\* with no type arguments and one argument, the configured fee collection
\* address; and the batched transaction is submitted only after the node
\* confirmed the creation transaction.
C28_CreationTx ==
    /\ Cardinality(CreationTxs) <= 1
    /\ Issued("create_submit") <=> Cardinality(CreationTxs) = 1
    /\ \A i \in CreationTxs :
          LET tx == txs[i]
          IN  /\ ramm_package_id # NoId
              /\ Len(tx.pt.commands) = 1
              /\ tx.pt.commands[1].package = ramm_package_id
              /\ tx.pt.commands[1].module = RAMM_MODULE_NAME
              /\ tx.pt.commands[1].function = "new_ramm"
              /\ tx.pt.commands[1].type_arguments = <<>>
              /\ tx.pt.commands[1].arguments = <<0>>
              /\ tx.pt.inputs = <<PureCallArg("address", cfg.fee_collection_address)>>
              /\ tx.sender = client_address
    /\ \A j \in BatchedTxs :
          /\ Answered("create_submit")
          /\ \A i \in CreationTxs : i < j

\* the creation transaction was submitted and confirmed, and the batched
\* transaction followed it
C28_Witness ==
    /\ Cardinality(CreationTxs) = 1
    /\ Answered("create_submit")
    /\ BatchedTxs # {}
    /\ \A i \in CreationTxs : txs[i].pt.commands[1].package = ramm_package_id

\* the object references among the inputs of a transaction
ObjectInputs(tx) ==
    { tx.pt.inputs[i].obj : i \in { j \in 1..Len(tx.pt.inputs) :
                                      tx.pt.inputs[j].kind = "Object" } }

\* every object reference the pipeline holds or has put into a transaction
ReferencesTo(id) ==
    { oa \in {ramm_obj_arg, admin_cap_obj_arg, new_asset_cap_obj_arg}
              \cup { cap_obj_args[i] : i \in 1..Len(cap_obj_args) }
              \cup { aggr_obj_args[i] : i \in 1..Len(aggr_obj_args) }
              \cup ObjectInputs(ptb_tx)
              \cup UNION { ObjectInputs(txs[i]) : i \in 1..Len(txs) } :
        oa.id = id /\ oa # NoObjArg }

\* C29: every reference to the RAMM is a shared-object reference with
\* mutable = TRUE, every reference to an aggregator is a shared-object
\* reference with mutable = FALSE, every reference to a capability is an
\* ImmOrOwned reference, and the pipeline holds and submits no object
\* reference in any other mode.
C29_ReferenceModes ==
    /\ ramm_obj_arg # NoObjArg =>
          \A oa \in ReferencesTo(ramm_obj_arg.id) :
              oa.kind = "SharedObject" /\ oa.mutable = TRUE
    /\ \A i \in 1..Len(aggr_obj_args) :
          /\ aggr_obj_args[i].id = cfg.assets[i].aggregator_address
          /\ \A oa \in ReferencesTo(aggr_obj_args[i].id) :
                oa.kind = "SharedObject" /\ oa.mutable = FALSE
    /\ \A i \in 1..Len(cap_obj_args) :
          \A oa \in ReferencesTo(cap_obj_args[i].id) :
              oa.kind = "ImmOrOwnedObject"
    /\ \A oa \in ObjectInputs(ptb_tx) \cup UNION { ObjectInputs(txs[i]) : i \in 1..Len(txs) } :
          \/ oa = ramm_obj_arg /\ oa.kind = "SharedObject" /\ oa.mutable
          \/ oa \in {admin_cap_obj_arg, new_asset_cap_obj_arg}
                /\ oa.kind = "ImmOrOwnedObject"
          \/ /\ \E i \in 1..Len(aggr_obj_args) : oa = aggr_obj_args[i]
             /\ oa.kind = "SharedObject" /\ ~oa.mutable

\* the batched transaction was submitted with the RAMM, both capabilities
\* and two aggregators among its inputs
C29_Witness ==
    /\ pc = "await_ptb_submit"
    /\ Len(aggr_obj_args) = 2
    /\ aggr_obj_args[1] # aggr_obj_args[2]
    /\ {ramm_obj_arg, admin_cap_obj_arg, new_asset_cap_obj_arg,
        aggr_obj_args[1], aggr_obj_args[2]} = ObjectInputs(txs[Len(txs)])
    /\ ramm_obj_arg.mutable
    /\ ~aggr_obj_args[1].mutable
    /\ admin_cap_obj_arg.kind = "ImmOrOwnedObject"

\* the Aggregator Resolver has started: both capabilities are resolved and
\* the run has left the point where build_aggr_obj_args is called
AggrResolverRan == admin_cap_obj_arg # NoObjArg /\ pc # "aggr"

\* the configured aggregator addresses
AggrAddresses == { cfg.assets[i].aggregator_address : i \in 1..Len(cfg.assets) }

\* C30: the aggregators are read with one batched call: it is issued at most
\* once, exactly once as soon as the resolver has run, it requests one id
\* per configured asset, the i-th being the aggregator address of the i-th
\* asset, and no other call of the run names an aggregator.
C30_OneBatchedRead ==
    /\ IssuedCount("aggr_multi_get") <= 1
    /\ AggrResolverRan <=> IssuedCount("aggr_multi_get") = 1
    /\ \A i \in 1..Len(log) :
          IF log[i].op = "aggr_multi_get"
            THEN /\ Len(log[i].ids) = Len(cfg.assets)
                 /\ \A k \in 1..Len(cfg.assets) :
                       log[i].ids[k] = cfg.assets[k].aggregator_address
            ELSE \A k \in 1..Len(log[i].ids) : log[i].ids[k] \notin AggrAddresses

\* two distinct aggregators were read with one answered call
C30_Witness ==
    /\ Answered("aggr_multi_get")
    /\ IssuedCount("aggr_multi_get") = 1
    /\ Len(cfg.assets) = 2
    /\ cfg.assets[1].aggregator_address # cfg.assets[2].aggregator_address
    /\ Len(aggr_obj_args) = 2
    /\ aggr_obj_args[1].id = cfg.assets[1].aggregator_address

(***************************************************************************)
(* The batched read with an unconstrained answer.  build_aggr_obj_args     *)
(* reads the answer by position only; here the node may return the         *)
(* requested objects in any order, or return fewer than were requested.     *)
(***************************************************************************)
\* the answers of the batched read, with no constraint on order or length
AggrResponsesAnyOrder(ids) ==
    { r \in Seqs(UNION { AggrAnswers(ids[i]) : i \in 1..Len(ids) }, Len(ids)) :
        \A i, j \in 1..Len(r) : i # j => r[i].id # r[j].id }

\* AggrRespond, for any answer of the node.
AggrRespondAnyOrder ==
    /\ pc = "await_aggr"
    /\ \E answer \in AggrResponsesAnyOrder(log[Len(log)].ids) :
          LET r == build_aggr_obj_args(answer, cfg)
          IN  /\ Complete("ok")
              /\ aggr_objs' = answer
              /\ IF r.res = "ok"
                   THEN aggr_obj_args' = r.val /\ Goto("coins")
                   ELSE Finish(r.res, r.val) /\ UNCHANGED aggr_obj_args
    /\ UNCHANGED input
    /\ UNCHANGED <<cfg, chain, client_address, ramm_package_id, ramm_obj_arg,
                   cap_obj_args, cap_obj_ty, admin_cap_obj_arg,
                   new_asset_cap_obj_arg, coin, gas_price, ptb_tx, txs, ptb_status>>

NextAnyResponse == Next \/ AggrRespondAnyOrder

SpecAnyResponse == Init /\ [][NextAnyResponse]_vars

\* C31: every aggregator reference the resolver produces carries the initial
\* shared version of the on-chain object its id names, whatever the batched
\* read returned; an answer in another order or with fewer objects than
\* requested ends the run with a failure and no list.
C31_OraclePairing ==
    /\ \A i \in 1..Len(aggr_obj_args) :
          aggr_obj_args[i].version = AggrVersion(aggr_obj_args[i].id)
    /\ (Answered("aggr_multi_get")
          /\ \E i \in 1..Len(aggr_objs) :
                i > Len(cfg.assets) \/ aggr_objs[i].id # cfg.assets[i].aggregator_address)
          => Failed /\ aggr_obj_args = <<>>
    /\ (Answered("aggr_multi_get") /\ Len(aggr_objs) < Len(cfg.assets))
          => Failed /\ aggr_obj_args = <<>>

(***************************************************************************)
(* The pipeline on long asset lists: configs whose lists reach and pass    *)
(* the range of asset_count (u8), with every aggregator found and shared.  *)
(***************************************************************************)
\* lengths of the asset lists
LongLens == {1, 2, 256, 257, 258}

LongConfigs ==
    [target_env : {"testnet"},
     ramm_pkg_addr_or_path : {FromTomlConfig(<<"cfgpkg", 1>>), FromPkgPublication},
     asset_count : {1, 2},
     fee_collection_address : {"fee"},
     assets : { [i \in 1..n |-> AssetConfig(i, GoodDecimals(i))] : n \in LongLens }]

InitLongLists ==
    /\ cfg \in LongConfigs
    /\ pc = "parse"
    /\ outcome = "running"
    /\ err = ""
    /\ log = <<>>
    /\ chain = AccountCoins
    /\ client_address = ""
    /\ ramm_package_id = NoId
    /\ ramm_obj_arg = NoObjArg
    /\ cap_obj_args = <<>>
    /\ cap_obj_ty = ""
    /\ admin_cap_obj_arg = NoObjArg
    /\ new_asset_cap_obj_arg = NoObjArg
    /\ aggr_objs = <<>>
    /\ aggr_obj_args = <<>>
    /\ coin = NoCoin
    /\ gas_price = 0
    /\ ptb_tx = NoTx
    /\ txs = <<>>
    /\ ptb_status = ""
    /\ input = ""

\* the answer of the batched read when every requested aggregator is found
\* and shared: one object per id, in request order
AllSharedResponse(ids) ==
    [i \in 1..Len(ids) |-> AggrObj(ids[i], Shared(AggrVersion(ids[i])))]

\* AggrRespond, with every aggregator found and shared.
AggrRespondAllShared ==
    /\ pc = "await_aggr"
    /\ \/ /\ RpcFails("AggregatorDataQueryError")
          /\ UNCHANGED <<aggr_objs, aggr_obj_args>>
       \/ LET answer == AllSharedResponse(log[Len(log)].ids)
              r == build_aggr_obj_args(answer, cfg)
          IN  /\ Complete("ok")
              /\ aggr_objs' = answer
              /\ IF r.res = "ok"
                   THEN aggr_obj_args' = r.val /\ Goto("coins")
                   ELSE Finish(r.res, r.val) /\ UNCHANGED aggr_obj_args
    /\ UNCHANGED input
    /\ UNCHANGED <<cfg, chain, client_address, ramm_package_id, ramm_obj_arg,
                   cap_obj_args, cap_obj_ty, admin_cap_obj_arg,
                   new_asset_cap_obj_arg, coin, gas_price, ptb_tx, txs, ptb_status>>

NextLongLists ==
    \/ ParseCfg
    \/ BuildClientIssue
    \/ BuildClientRespond
    \/ ResolvePkgFromToml
    \/ PublishBuildIssue
    \/ PublishBuildRespond
    \/ PublishSubmitIssue
    \/ PublishSubmitRespond
    \/ CreateBuildIssue
    \/ CreateBuildRespond
    \/ CreateSubmitIssue
    \/ CreateSubmitRespond
    \/ CapQueryIssue
    \/ CapQueryRespond
    \/ AggrIssue
    \/ AggrRespondAllShared
    \/ CoinsIssue
    \/ CoinsRespond
    \/ GasPriceIssue
    \/ GasPriceRespond
    \/ PtbSubmitIssue
    \/ PtbSubmitRespond

SpecLongLists == InitLongLists /\ [][NextLongLists]_vars

\* C32: whenever the batched transaction has been built, the asset list,
\* asset_count and the list of aggregator references have the same length,
\* the transaction has one add-asset call per asset, and building it never
\* indexes past the end of either list; a config that passed validation
\* with a list length other than asset_count is stopped by the length
\* assertion of the aggregator resolver, before anything is built.
C32_LengthsAgree ==
    /\ ptb_tx # NoTx =>
          /\ Len(cfg.assets) = cfg.asset_count
          /\ Len(aggr_obj_args) = cfg.asset_count
          /\ Len(ptb_tx.pt.commands) = cfg.asset_count + 1
    /\ err # "add_assets_and_init_ramm"
    /\ (Answered("aggr_multi_get") /\ Len(cfg.assets) # cfg.asset_count) =>
          /\ pc = "done"
          /\ outcome = "panic"
          /\ err = "assert_eq aggr_obj_args.len() asset_count"
          /\ ptb_tx = NoTx

\* the batched transaction was built for two assets and two aggregators,
\* with two add-asset calls and the initialization call
C32_Witness ==
    /\ ptb_tx # NoTx
    /\ cfg.asset_count = 2
    /\ Len(cfg.assets) = 2
    /\ Len(aggr_obj_args) = 2
    /\ Len(ptb_tx.pt.commands) = 3

\* C33: no step of the pipeline, in a run that succeeds or in one that
\* fails, changes the target environment, the package source, the fee
\* collection address, the asset count or the asset list of the config.
C33_ConfigUnchanged ==
    [][ /\ cfg'.target_env = cfg.target_env
        /\ cfg'.ramm_pkg_addr_or_path = cfg.ramm_pkg_addr_or_path
        /\ cfg'.fee_collection_address = cfg.fee_collection_address
        /\ cfg'.asset_count = cfg.asset_count
        /\ cfg'.assets = cfg.assets ]_vars

\* a run on a valid config of two assets that went through every step and
\* failed at the last one, the batched submit
C33_Witness ==
    /\ validate_ramm_cfg(cfg)
    /\ cfg.asset_count = 2
    /\ pc = "done"
    /\ outcome = "err"
    /\ err = "TxBlockExecutionError"
    /\ Len(log) = 10
    /\ Len(ptb_tx.pt.commands) = 3

\* the calls of the run that submit a signed transaction
SubmitOps == {"publish_submit", "create_submit", "ptb_submit"}

\* C34: the address of the run is the active address of the client; every
\* submitted transaction has it as sender and is signed with its key, the
\* i-th submit call carrying the i-th transaction; the two capability
\* references are to created objects that address owns; the coin query
\* lists the coins of that address, and the gas coin of the batched
\* transaction is owned by it.
C34_OneAddress ==
    /\ client_address \in {"", ActiveAddress}
    /\ \A i \in 1..Len(txs) : txs[i].sender = ActiveAddress
    /\ ptb_tx # NoTx => ptb_tx.sender = ActiveAddress
    /\ \A i \in 1..Len(log) :
          /\ log[i].op \in SubmitOps \cup {"get_coins"} =>
                log[i].address = ActiveAddress /\ client_address = ActiveAddress
          /\ log[i].op \notin SubmitOps \cup {"get_coins"} => log[i].address = ""
    /\ Len(txs) = Cardinality({ i \in 1..Len(log) : log[i].op \in SubmitOps })
    /\ \A i \in 1..Len(cap_obj_args) :
          /\ HasObject(chain, cap_obj_args[i].id)
          /\ ObjectAt(chain, cap_obj_args[i].id).creator = "create"
          /\ OwnerIs(ObjectAt(chain, cap_obj_args[i].id).owner, ActiveAddress)
    /\ coin # NoCoin =>
          /\ Answered("get_coins")
          /\ OwnerIs(ObjectAt(chain, coin.object_id).owner, ActiveAddress)

\* publish branch: three transactions signed and submitted by the active
\* address, two capabilities selected and the gas coin taken; the creation
\* transaction also created a capability for another address
C34_Witness ==
    /\ Len(txs) = 3
    /\ \A i \in 1..3 : txs[i].sender = ActiveAddress
    /\ log[Len(log)].op = "ptb_submit"
    /\ log[Len(log)].address = ActiveAddress
    /\ Len(cap_obj_args) = 2
    /\ txs[3].gas_payment = coin
    /\ coin # NoCoin
    /\ \E o \in CreatedBy("create") : OwnerIs(o.owner, OtherAddress)

(***************************************************************************)
(* An account that runs out of coins.  Publication and creation need a     *)
(* coin for their gas, so the coin query can find the account empty only   *)
(* if its coins left it in the meantime.                                   *)
(***************************************************************************)
\* Another holder of the account's key sends all its coins away, in one
\* transaction, while the run is going on.
OtherActorTakesAll ==
    /\ pc # "done"
    /\ CoinsOf(chain, ActiveAddress) # <<>>
    /\ chain' = { IF o.ty = "GasCoin" /\ OwnerIs(o.owner, ActiveAddress)
                    THEN [o EXCEPT !.owner = AddressOwner(OtherAddress),
                                   !.version = @ + 1,
                                   !.previous_transaction = "other"]
                    ELSE o : o \in chain }
    /\ UNCHANGED input
    /\ UNCHANGED <<cfg, pc, outcome, err, log, locals, txs, ptb_status>>

NextDrained == Next \/ OtherActorTakesAll

SpecDrained == Init /\ [][NextDrained]_vars

\* the coin query was answered with an empty list
NoCoinReturned == Answered("get_coins") /\ coin = NoCoin

\* C35: when the coin query is answered and the address has no coin, the
\* run ends at that step with a failure; in such a run the gas price is
\* never queried, the batched transaction is neither built nor submitted,
\* and every RAMM on the ledger stays without assets and inactive.
C35_NoCoinStops ==
    /\ [][ (pc = "await_coins" /\ CoinsOf(chain, client_address) = <<>>
              /\ log'[Len(log)].st = "ok")
           => /\ pc' = "done"
              /\ outcome' \in {"err", "panic"}
              /\ coin' = NoCoin
              /\ Len(log') = Len(log)
              /\ txs' = txs ]_vars
    /\ [](NoCoinReturned =>
            /\ Failed
            /\ log[Len(log)].op = "get_coins"
            /\ ~Issued("get_gas_price")
            /\ ~Issued("ptb_submit")
            /\ gas_price = 0
            /\ ptb_tx = NoTx
            /\ BatchedTxs = {}
            /\ \A o \in chain : o.ty = "RAMM" => ~o.active /\ o.assets = <<>>)

\* the RAMM was created, the coin query found the account empty and the run
\* ended there
C35_Witness ==
    /\ NoCoinReturned
    /\ pc = "done"
    /\ err = "No coins associated to active address!"
    /\ \E o \in chain : o.ty = "RAMM" /\ o.id = ramm_obj_arg.id
    /\ Len(aggr_obj_args) = 2

(***************************************************************************)
(* main with the confirmation prompt.  Between parsing the config and      *)
(* ramm_deployment, main calls user_assent_interaction, which prints the   *)
(* config and reads lines from the terminal until one of them is an        *)
(* answer.  Spec leaves the prompt out and goes from the parsed config     *)
(* straight to the deployment; SpecAssent has it.                          *)
(***************************************************************************)
\* what read_line may return: a line with its terminator, the last line of
\* the stream without one, or nothing at the end of the stream
Lines == {"yes\n", "no\n", "\n", "y\n", "Yes\n", " yes\n", "yes\r\n", "yes", "no", ""}

\* main: the config is parsed and validated, then shown to the user.
ParseCfgAsks ==
    /\ pc = "parse"
    /\ IF validate_ramm_cfg(cfg)
         THEN Goto("assent")
         ELSE Finish("err", "InvalidConfigData")
    /\ UNCHANGED <<cfg, log, chain, locals, txs, ptb_status, input>>

\* user_assent_interaction: read_line appends the next line to the buffer;
\* expect() panics when the read fails.
ReadLine ==
    /\ pc = "assent"
    /\ \/ \E line \in Lines :
             /\ input' = input \o line
             /\ Goto("assent_match")
       \/ /\ Finish("panic", "Failed to read line!")
          /\ UNCHANGED input
    /\ UNCHANGED <<cfg, log, chain, locals, txs, ptb_status>>

\* Variant of MatchInput that also takes "y" for an acceptance.
MatchInputLenient ==
    /\ pc = "assent_match"
    /\ CASE input \in {"yes\n", "y\n"} -> Goto("client") /\ UNCHANGED input
         [] input = "no\n"  -> Finish("rejected", "") /\ UNCHANGED input
         [] OTHER           -> Goto("assent") /\ input' = ""
    /\ UNCHANGED <<cfg, log, chain, locals, txs, ptb_status>>

\* user_assent_interaction: the match on the buffer.  "yes\n" leaves the
\* loop with Accepted and main goes on to ramm_deployment; "no\n" returns
\* Rejected and main returns; anything else prints the prompt again, clears
\* the buffer and reads on.
MatchInput ==
    /\ pc = "assent_match"
    /\ CASE input = "yes\n" -> Goto("client") /\ UNCHANGED input
         [] input = "no\n"  -> Finish("rejected", "") /\ UNCHANGED input
         [] OTHER           -> Goto("assent") /\ input' = ""
    /\ UNCHANGED <<cfg, log, chain, locals, txs, ptb_status>>

NextAssent ==
    \/ ParseCfgAsks
    \/ ReadLine
    \/ MatchInput
    \/ BuildClientIssue
    \/ BuildClientRespond
    \/ ResolvePkgFromToml
    \/ PublishBuildIssue
    \/ PublishBuildRespond
    \/ PublishSubmitIssue
    \/ PublishSubmitRespond
    \/ CreateBuildIssue
    \/ CreateBuildRespond
    \/ CreateSubmitIssue
    \/ CreateSubmitRespond
    \/ CapQueryIssue
    \/ CapQueryRespond
    \/ AggrIssue
    \/ AggrRespond
    \/ CoinsIssue
    \/ CoinsRespond
    \/ GasPriceIssue
    \/ GasPriceRespond
    \/ PtbSubmitIssue
    \/ PtbSubmitRespond

SpecAssent == Init /\ [][NextAssent]_vars

\* the run is still before or in the prompt
BeforeAssent == pc \in {"parse", "assent", "assent_match"}

\* C36: the prompt is left with Accepted only on a buffer that is exactly
\* "yes" and its line end, with Rejected only on one that is exactly "no"
\* and its line end, and on any other line it clears the buffer and reads
\* again; no call is issued and no transaction submitted before the prompt
\* returned Accepted; and a rejected run is over with no call issued, no
\* transaction submitted and the ledger as it was.
C36_AssentGuardsNetwork ==
    /\ [][ /\ (pc' = "client" /\ pc # "client") =>
                pc = "assent_match" /\ input = "yes\n" /\ input' = input
           /\ (outcome' = "rejected" /\ outcome # "rejected") =>
                pc = "assent_match" /\ input = "no\n" /\ pc' = "done"
           /\ (pc = "assent_match" /\ input \notin {"yes\n", "no\n"}) =>
                pc' = "assent" /\ input' = "" /\ outcome' = "running"
           /\ BeforeAssent => log' = log /\ txs' = txs /\ chain' = chain ]_vars
    /\ []((log # <<>> \/ txs # <<>> \/ chain # AccountCoins) =>
             ~BeforeAssent /\ input = "yes\n" /\ outcome # "rejected")
    /\ [](outcome = "rejected" =>
             /\ pc = "done"
             /\ input = "no\n"
             /\ log = <<>>
             /\ txs = <<>>
             /\ chain = AccountCoins
             /\ client_address = "")

\* the user answered "no": the run is over and nothing was done
C36_Witness ==
    /\ outcome = "rejected"
    /\ pc = "done"
    /\ input = "no\n"
    /\ validate_ramm_cfg(cfg)
    /\ log = <<>>
    /\ chain = AccountCoins
=============================================================================
